---- MODULE Spec2Model ----
(***************************************************************************)
(* Model of the pagination-driven record aggregation and cache layer of    *)
(* romiojoseph/at-protocol:                                                *)
(*   - the write front end (src/pages/write/js/state.js, api.js),          *)
(*   - the fetch-all walks of the read front end (src/pages/js/renderer.js *)
(*     sections main.js / api.js), of the CLI and of the bookmark bot      *)
(*     (src/unnamed/part_001).                                             *)
(* Each of these is a separate program (browser page, node process, worker *)
(* invocation); `prog` says which one a behaviour is a run of.             *)
(***************************************************************************)
EXTENDS Integers, Sequences, FiniteSets, TLC

\* ------------------------------------------------------------------ bounds
\* uris are 1..NumUris; the store hands them out in increasing order
NumUris == 2
\* uris that exist in the store before the program starts
InitialUris == 1
\* records requested per list page by the write front end (POSTS_PER_PAGE, scaled)
PageSize == 2
\* longest cache the model follows
MaxCacheLen == 2
\* list-page requests that may be outstanding together
MaxListReqs == 2
\* create/update/delete requests that may be outstanding together
MaxWriteReqs == 1

\* records asked for per list page by the fetch-all walks (MAX_LIST_LIMIT and
\* the CLI's and the bot's limit: 100, scaled)
ListLimit == 2
\* page budget of fetchAllRecordsForUser (MAX_PAGES_FOR_INITIAL_LOAD = 30, scaled)
MaxPages == 3
\* page budget of findRecordBySlug (maxPagesToCheck = 20, scaled)
MaxPagesToCheck == 2
\* most records a fetch-all walk gathers in the model
MaxWalkLen == 7

\* ------------------------------------------------------------- vocabulary
NoCursor == "none"
CursorOpt == {"c1", NoCursor}
\* cursors the store answers a fetch-all walk with
WalkCursorOpt == {"c1", "c2", NoCursor}
NoSession == "none"
\* no handleSavePost is waiting for the comment uri
NoPending == <<>>
DIDs == {"did:a"}
\* publishedAt as a field holds it: no value, a string no parser reads, a
\* string `new Date` and the custom format read but parseISO does not, or a
\* time after the epoch (1, 2, ...)
NoDate == -1
BadDate == -2
LooseDate == -3
\* latest time a record or a form carries
MaxDate == 2
\* longest list the view handlers are run on
MaxViewLen == 3

\* the characters of a slug as typed or stored, and the longest one
MaxSlugLen == 3
SlugStrings == UNION { [1..n -> {"a", "A", " ", "-", "_", "!"}] : n \in 0..MaxSlugLen }

\* the settings of the post form the write front end saves with in the
\* model: category as typed (trimmed or not), published time, flag; the
\* third has a publishedAt that the save button accepts and parseISO does not
WriteForms == { [title |-> "t", category |-> "a", slug |-> <<"a">>, publishedAt |-> 2,
                 comment |-> "", recommended |-> FALSE],
                [title |-> "t", category |-> " b& ", slug |-> <<"a">>, publishedAt |-> 1,
                 comment |-> "", recommended |-> TRUE],
                [title |-> "t", category |-> "a", slug |-> <<"a">>,
                 publishedAt |-> LooseDate, comment |-> "", recommended |-> FALSE] }
\* the post form as a submit or a later read finds it; the characters of
\* the slug stand for a lower case letter, an upper case letter, white space,
\* the hyphen, the underscore and a character outside \w
Forms == [title : {"t", "", " "}, category : {"a"},
          slug : { <<>>, <<"a">>, <<"a", "-", "a">>, <<"A">>, <<"a", "_">>,
                   <<"-", "a">>, <<" ", "a">>, <<"!">> },
          publishedAt : {BadDate, LooseDate, 1}, comment : {"", "url"},
          recommended : {FALSE}]
\* String.prototype.trim on the strings of the model
Trim(s) == IF s = " b& " THEN "b&" ELSE IF s = " B " THEN "B" ELSE IF s = " " THEN "" ELSE s
\* sanitize of the read front end (textContent -> innerHTML escapes &, <, >)
Sanitize(s) == IF s = " b& " THEN " b&amp; " ELSE IF s = "b&" THEN "b&amp;" ELSE s

Rec(u, v) == [uri |-> u, value |-> v]

\* the handler step taken last: its name, its outcome and (for a list page) its size
\* and the type of the status message it shows with ui.showStatus ("" if none)
Ev(op, result, shown) == [op |-> op, result |-> result, n |-> 0, shown |-> shown]
EvUri(op, result, shown, uri) == [op |-> op, result |-> result, n |-> uri, shown |-> shown]
EvPage(op, result, n) == [op |-> op, result |-> result, n |-> n, shown |-> ""]

VARIABLES
    prog,               \* which program runs: "write", "read", "find", "cli", "bot"
    session,            \* _agent/_session: NoSession or the did of the session
    fetchedPostsCache,  \* _fetchedPostsCache
    cursor,             \* _cursor
    isLoadingMore,      \* _isLoadingMore
    allPostsLoaded,     \* _allPostsLoaded
    uniqueCategories,   \* _uniqueCategories
    listReqs,           \* listRecords calls not yet answered
    writeReqs,          \* createRecord/putRecord/deleteRecord calls not yet answered
    nextUri,            \* the store: uris 1..nextUri-1 exist or have existed
    wPc,                \* the fetch-all walk: "idle", "awaiting" (a listRecords call is out), "done"
    allRecords,         \* allRecords of the walk
    pagesFetched,       \* pagesFetched of the walk
    currentCursor,      \* currentCursor / cursor of the walk: sent with the call that is out
    wResult,            \* how the walk returned: "none", "returned", "empty", "thrown", "found", "null"
    wSlug,              \* findRecordBySlug: the uri whose slug is looked for
    allFetchedPosts,    \* main.js: allFetchedPosts
    rUniqueCategories,  \* main.js: uniqueCategories, the Set handed to fetchAllRecordsForUser
    records,            \* CLI exportPosts / bot getExistingBookmarkDetails: const records
    searchTerm,         \* _searchTerm
    filterCategory,     \* _filterCategory
    sortOrder,          \* _sortOrder
    slugField,          \* the value of the slug field of the post form
    pendingSave,        \* handleSavePost waiting for convertBskyUrlToAtUri: what it has read so far
    currentViewDID,     \* main.js: currentViewDID
    isLoading,          \* main.js: isLoading
    localStorage,       \* localStorage[LOCALSTORAGE_SESSION_KEY], parsed: "null" or the stored data
    clock,              \* Date.now()
    resuming,           \* attemptResumeSession awaiting api.resumeSession: its storedSessionData
    pendingUri,         \* bot: TELEGRAM_STATE_KV[chatId] of the authorized chat, 0 when the key is not there
    bookmarks,          \* bot: how many records of the bookmark collection hold each post uri
    calls,              \* bot: the Bluesky and KV calls the update handled last has caused
    pageNumber,         \* CLI managePosts: pageNumber
    history,            \* CLI managePosts: history, the cursors of the pages before this one
    cursorOfNext,       \* CLI managePosts: nextCursor, the cursor that came with the page shown
    ev                  \* the handler step taken last

wvars == <<session, fetchedPostsCache, cursor, isLoadingMore, allPostsLoaded,
           uniqueCategories, listReqs, writeReqs, nextUri>>
rvars == <<wPc, allRecords, pagesFetched, currentCursor, wResult, wSlug,
           allFetchedPosts, rUniqueCategories, records>>
viewvars == <<searchTerm, filterCategory, sortOrder>>
othervars == <<currentViewDID, isLoading, localStorage, clock, resuming,
               pendingUri, bookmarks, calls, pageNumber, history, cursorOfNext>>
vars == <<prog, wvars, rvars, viewvars, othervars, pendingSave, slugField, ev>>

\* --------------------------------------------------------------- helpers
RECURSIVE SeqFilterOut(_, _)
\* Array.prototype.filter(p => p.uri !== u)
SeqFilterOut(s, u) ==
    IF s = <<>> THEN <<>>
    ELSE IF Head(s).uri = u THEN SeqFilterOut(Tail(s), u)
         ELSE <<Head(s)>> \o SeqFilterOut(Tail(s), u)

Uris(s) == { s[i].uri : i \in DOMAIN s }

RemoveAt(s, i) == [ j \in 1..(Len(s) - 1) |-> IF j < i THEN s[j] ELSE s[j + 1] ]

\* pages the store can answer with: any records of uris it has handed out
RECURSIVE SeqsUpTo(_, _)
SeqsUpTo(S, n) ==
    IF n = 0 THEN { <<>> }
    ELSE LET shorter == SeqsUpTo(S, n - 1)
         IN shorter \cup { Append(s, x) : s \in { t \in shorter : Len(t) = n - 1 }, x \in S }

\* config.js: SESSION_MAX_AGE_HOURS, in ticks of the clock
SESSION_MAX_AGE == 1
\* the clock stops here
MaxClock == 4
\* the bot stops creating bookmarks of a post uri at this many
MaxCopies == 2

\* the value the store serves for a uri in a list page
StoredValue(u) ==
    IF u % 2 = 1
    THEN [title |-> "t", category |-> "a", slug |-> <<"a">>, publishedAt |-> 2,
          recommended |-> FALSE]
    ELSE [title |-> "t", category |-> " b& ", slug |-> <<"a">>, publishedAt |-> 1,
          recommended |-> TRUE]
Pages(limit) == SeqsUpTo({ Rec(u, StoredValue(u)) : u \in 1..(nextUri - 1) }, limit)

\* ------------------------------------------------ state.js: cache modifiers
\* appendPostsToCache: the uris of the page are compared with the cache as it
\* was before the call
RECURSIVE FilterNew(_, _)
FilterNew(newPosts, existingUris) ==
    IF newPosts = <<>> THEN <<>>
    ELSE IF Head(newPosts).uri \in existingUris
         THEN FilterNew(Tail(newPosts), existingUris)
         ELSE <<Head(newPosts)>> \o FilterNew(Tail(newPosts), existingUris)

\* the same with a page taken only into an empty cache
appendPostsToCacheOnlyWhenEmpty(cache, newPosts) ==
    IF cache = <<>> THEN FilterNew(newPosts, {}) ELSE cache

appendPostsToCache(cache, newPosts) == cache \o FilterNew(newPosts, Uris(cache))

\* the same with the set rebuilt from the page that arrived
updateUniqueCategoriesRebuilds(cats, posts) ==
    { Trim(posts[i].value.category) : i \in
       { j \in DOMAIN posts : Trim(posts[j].value.category) \notin {"", "Recommended"} } }

\* updateUniqueCategories: trimmed, non-empty, not "Recommended"
updateUniqueCategories(cats, posts) ==
    cats \cup { Trim(posts[i].value.category) : i \in
                 { j \in DOMAIN posts : Trim(posts[j].value.category) \notin {"", "Recommended"} } }

\* getUniqueCategories, as a set
getUniqueCategories ==
    IF \E i \in DOMAIN fetchedPostsCache : fetchedPostsCache[i].value.recommended
    THEN uniqueCategories \cup {"Recommended"}
    ELSE uniqueCategories

\* a replace that takes the old entry out and puts the new record first
ReplaceByUriAtFront(cache, newRecord) ==
    IF newRecord.uri \in Uris(cache)
    THEN <<newRecord>> \o SeqFilterOut(cache, newRecord.uri)
    ELSE cache

\* replace step of handleSavePost: map(p => p.uri === newRecord.uri ? newRecord : p)
ReplaceByUri(cache, newRecord) ==
    [ i \in DOMAIN cache |-> IF cache[i].uri = newRecord.uri THEN newRecord ELSE cache[i] ]

\* ------------------------------------------------------ write front end
\* the walk variables before any walk has started
RIdle ==
    /\ wPc = "idle"
    /\ allRecords = <<>>
    /\ pagesFetched = 0
    /\ currentCursor = NoCursor
    /\ wResult = "none"
    /\ wSlug = 0
    /\ allFetchedPosts = <<>>
    /\ rUniqueCategories = {}
    /\ records = <<>>

\* the view state and the save form as the module is loaded
ViewDefaults ==
    /\ searchTerm = ""
    /\ filterCategory = ""
    /\ sortOrder = "newest"
    /\ pendingSave = NoPending
    /\ slugField = <<>>
    /\ currentViewDID = "null"
    /\ isLoading = FALSE
    /\ clock = 1
    /\ pendingUri = 0
    /\ bookmarks = [ u \in 1..NumUris |-> 0 ]
    /\ calls = {}
    /\ pageNumber = 1
    /\ history = <<>>
    /\ cursorOfNext = NoCursor
    /\ resuming = [session |-> "null", initialLoginAt |-> 0]
    /\ localStorage \in IF prog = "resume"
                        THEN { [session |-> d, initialLoginAt |-> 0] : d \in {"null", "did:a"} }
                        ELSE { [session |-> "null", initialLoginAt |-> 0] }

WInit ==
    /\ prog = "write"
    /\ RIdle
    /\ ViewDefaults
    /\ session = NoSession
    /\ fetchedPostsCache = <<>>
    /\ cursor = NoCursor
    /\ isLoadingMore = FALSE
    /\ allPostsLoaded = FALSE
    /\ uniqueCategories = {}
    /\ listReqs = <<>>
    /\ writeReqs = <<>>
    /\ nextUri = InitialUris + 1
    /\ ev = Ev("init", "", "")

\* handleLogin with an empty handle or password
HandleLoginMissing ==
    /\ prog = "write"
    /\ ev' = Ev("handleLogin", "missing", "error")
    /\ UNCHANGED <<prog, othervars, viewvars, pendingSave, slugField, rvars, session, fetchedPostsCache, cursor, isLoadingMore,
                   allPostsLoaded, uniqueCategories, listReqs, writeReqs, nextUri>>

\* handleLogin, performLogin resolved: setAgent/setSession, then
\* loadInitialData, which resets the cache and calls fetchAndAppendPosts()
\* up to its await.  Before its own await handleLogin only clears the status
\* line, so the two halves are taken as one step.
LoginSucceeds(d) ==
    /\ prog = "write"
    /\ Len(listReqs) < MaxListReqs
    /\ session' = d
    /\ fetchedPostsCache' = <<>>
    /\ cursor' = NoCursor
    /\ allPostsLoaded' = FALSE
    /\ uniqueCategories' = {}
    /\ isLoadingMore' = TRUE
    /\ listReqs' = Append(listReqs, [cursor |-> NoCursor, did |-> d])
    /\ ev' = Ev("loadInitialData", "sent", "")
    /\ UNCHANGED <<prog, othervars, viewvars, pendingSave, slugField, rvars, writeReqs, nextUri>>

\* handleLogin, performLogin rejected
LoginFails ==
    /\ prog = "write"
    /\ session' = NoSession
    /\ ev' = Ev("handleLogin", "failed", "error")
    /\ UNCHANGED <<prog, othervars, viewvars, pendingSave, slugField, rvars, fetchedPostsCache, cursor, isLoadingMore, allPostsLoaded,
                   uniqueCategories, listReqs, writeReqs, nextUri>>

\* handleLogout without the reset of the search term, filter and sort order
HandleLogoutKeepsView ==
    /\ prog \in {"write", "form", "view"}
    /\ session' = NoSession
    /\ fetchedPostsCache' = <<>>
    /\ cursor' = NoCursor
    /\ allPostsLoaded' = FALSE
    /\ isLoadingMore' = FALSE
    /\ uniqueCategories' = {}
    /\ ev' = Ev("handleLogout", "", "")
    /\ UNCHANGED <<prog, othervars, viewvars, pendingSave, slugField, rvars, listReqs, writeReqs, nextUri>>

\* handleLogout
HandleLogout ==
    /\ prog \in {"write", "form", "view"}
    /\ session' = NoSession
    /\ fetchedPostsCache' = <<>>
    /\ cursor' = NoCursor
    /\ allPostsLoaded' = FALSE
    /\ isLoadingMore' = FALSE
    /\ uniqueCategories' = {}
    /\ searchTerm' = ""
    /\ filterCategory' = ""
    /\ sortOrder' = "newest"
    /\ ev' = Ev("handleLogout", "", "")
    /\ UNCHANGED <<prog, othervars, pendingSave, slugField, rvars, listReqs, writeReqs, nextUri>>

\* fetchAndAppendPosts(c) up to its await, called with the state as it is:
\* the guard, then api.fetchBlogPostsBatch, which throws "Not logged in"
\* (caught at once: finally-block) or sends listRecords
FetchAndAppendPosts(c, op) ==
    IF isLoadingMore
    THEN /\ ev' = Ev(op, "ignored", "")
         /\ UNCHANGED wvars
    ELSE IF session = NoSession
    THEN /\ isLoadingMore' = FALSE
         /\ ev' = Ev(op, "notLoggedIn", "error")
         /\ UNCHANGED <<session, fetchedPostsCache, cursor, allPostsLoaded,
                        uniqueCategories, listReqs, writeReqs, nextUri>>
    ELSE /\ Len(listReqs) < MaxListReqs
         /\ isLoadingMore' = TRUE
         /\ listReqs' = Append(listReqs, [cursor |-> c, did |-> session])
         /\ ev' = Ev(op, "sent", "")
         /\ UNCHANGED <<session, fetchedPostsCache, cursor, allPostsLoaded,
                        uniqueCategories, writeReqs, nextUri>>

\* handleLoadMore and fetchAndAppendPosts without their isLoadingMore tests
HandleLoadMoreUnguarded ==
    /\ prog = "write"
    /\ UNCHANGED <<prog, othervars, viewvars, pendingSave, slugField, rvars>>
    /\ IF allPostsLoaded
       THEN /\ ev' = Ev("handleLoadMore", "ignored", "")
            /\ UNCHANGED wvars
       ELSE IF session = NoSession
       THEN /\ isLoadingMore' = FALSE
            /\ ev' = Ev("handleLoadMore", "notLoggedIn", "error")
            /\ UNCHANGED <<session, fetchedPostsCache, cursor, allPostsLoaded,
                           uniqueCategories, listReqs, writeReqs, nextUri>>
       ELSE /\ Len(listReqs) < MaxListReqs
            /\ isLoadingMore' = TRUE
            /\ listReqs' = Append(listReqs, [cursor |-> cursor, did |-> session])
            /\ ev' = Ev("handleLoadMore", "sent", "")
            /\ UNCHANGED <<session, fetchedPostsCache, cursor, allPostsLoaded,
                           uniqueCategories, writeReqs, nextUri>>

\* handleLoadMore up to the await inside fetchAndAppendPosts
HandleLoadMore ==
    /\ prog = "write"
    /\ UNCHANGED <<prog, othervars, viewvars, pendingSave, slugField, rvars>>
    /\ IF allPostsLoaded \/ isLoadingMore
       THEN /\ ev' = Ev("handleLoadMore", "ignored", "")
            /\ UNCHANGED wvars
       ELSE FetchAndAppendPosts(cursor, "handleLoadMore")

\* the same rule with the short-page test left out
AllLoadedCursorOnly(batchPosts, newCursor) == newCursor = NoCursor

\* the same rule with the cursor test left out
AllLoadedShortOnly(batchPosts, newCursor) == Len(batchPosts) < PageSize

\* fetchAndAppendPosts: the page after which allPostsLoaded is set
AllLoadedAfter(batchPosts, newCursor) ==
    newCursor = NoCursor \/ Len(batchPosts) < PageSize

\* fetchAndAppendPosts after its await, listRecords answered with a page
FetchSucceeds(i, batchPosts, newCursor) ==
    /\ prog = "write"
    /\ i \in DOMAIN listReqs
    /\ listReqs' = RemoveAt(listReqs, i)
    /\ fetchedPostsCache' = appendPostsToCache(fetchedPostsCache, batchPosts)
    /\ cursor' = newCursor
    /\ uniqueCategories' = updateUniqueCategories(uniqueCategories, batchPosts)
    /\ allPostsLoaded' = AllLoadedAfter(batchPosts, newCursor)
    /\ isLoadingMore' = FALSE
    /\ ev' = EvPage("fetchAndAppendPosts", "page", Len(batchPosts))
    /\ UNCHANGED <<prog, othervars, viewvars, pendingSave, slugField, rvars, session, writeReqs, nextUri>>

\* fetchAndAppendPosts after a failed listRecords, without the finally block
FetchFailsNoFinally(i) ==
    /\ prog = "write"
    /\ i \in DOMAIN listReqs
    /\ listReqs' = RemoveAt(listReqs, i)
    /\ ev' = Ev("fetchAndAppendPosts", "failed", "error")
    /\ UNCHANGED <<prog, othervars, viewvars, pendingSave, slugField, rvars, session, fetchedPostsCache, cursor, allPostsLoaded,
                   isLoadingMore, uniqueCategories, writeReqs, nextUri>>

\* fetchAndAppendPosts after its await, listRecords failed: catch and finally
FetchFails(i) ==
    /\ prog = "write"
    /\ i \in DOMAIN listReqs
    /\ listReqs' = RemoveAt(listReqs, i)
    /\ isLoadingMore' = FALSE
    /\ ev' = Ev("fetchAndAppendPosts", "failed", "error")
    /\ UNCHANGED <<prog, othervars, viewvars, pendingSave, slugField, rvars, session, fetchedPostsCache, cursor, allPostsLoaded,
                   uniqueCategories, writeReqs, nextUri>>

\* handleDeletePost up to the await of api.deleteBlogPostRecord
HandleDeletePost(uri, confirmed) ==
    /\ prog \in {"write", "filter"}
    /\ uri \in Uris(fetchedPostsCache)
    /\ UNCHANGED <<prog, othervars, viewvars, pendingSave, slugField, rvars, session, fetchedPostsCache, cursor, isLoadingMore, allPostsLoaded,
                   uniqueCategories, listReqs, nextUri>>
    /\ IF ~confirmed
       THEN /\ ev' = Ev("handleDeletePost", "cancelled", "")
            /\ UNCHANGED writeReqs
       ELSE IF session = NoSession
       THEN /\ ev' = Ev("handleDeletePost", "notLoggedIn", "error")
            /\ UNCHANGED writeReqs
       ELSE /\ Len(writeReqs) < MaxWriteReqs
            /\ writeReqs' = Append(writeReqs, [kind |-> "delete", uri |-> uri,
                                               value |-> StoredValue(uri),
                                               served |-> 0])
            /\ ev' = Ev("handleDeletePost", "sent", "")

\* handleDeletePost after a successful delete that cuts the cache off at the
\* deleted entry
DeleteSucceedsCutsOff(i) ==
    /\ prog \in {"write", "filter"}
    /\ i \in DOMAIN writeReqs
    /\ writeReqs[i].kind = "delete"
    /\ writeReqs' = RemoveAt(writeReqs, i)
    /\ fetchedPostsCache' =
          IF writeReqs[i].uri \in Uris(fetchedPostsCache)
          THEN SubSeq(fetchedPostsCache, 1,
                      (CHOOSE k \in DOMAIN fetchedPostsCache :
                          /\ fetchedPostsCache[k].uri = writeReqs[i].uri
                          /\ \A j \in 1..(k - 1) : fetchedPostsCache[j].uri # writeReqs[i].uri) - 1)
          ELSE fetchedPostsCache
    /\ allPostsLoaded' = FALSE
    /\ ev' = EvUri("handleDeletePost", "deleted", "success", writeReqs[i].uri)
    /\ UNCHANGED <<prog, othervars, viewvars, pendingSave, slugField, rvars, session, cursor, isLoadingMore, uniqueCategories,
                   listReqs, nextUri>>

\* handleDeletePost after a successful delete, without `_allPostsLoaded = false`
DeleteSucceedsKeepsLoaded(i) ==
    /\ prog \in {"write", "filter"}
    /\ i \in DOMAIN writeReqs
    /\ writeReqs[i].kind = "delete"
    /\ writeReqs' = RemoveAt(writeReqs, i)
    /\ fetchedPostsCache' = SeqFilterOut(fetchedPostsCache, writeReqs[i].uri)
    /\ ev' = EvUri("handleDeletePost", "deleted", "success", writeReqs[i].uri)
    /\ UNCHANGED <<prog, othervars, viewvars, pendingSave, slugField, rvars, session, cursor, isLoadingMore, uniqueCategories,
                   allPostsLoaded, listReqs, nextUri>>

\* handleDeletePost after its await, deleteRecord succeeded
DeleteSucceeds(i) ==
    /\ prog \in {"write", "filter"}
    /\ i \in DOMAIN writeReqs
    /\ writeReqs[i].kind = "delete"
    /\ writeReqs' = RemoveAt(writeReqs, i)
    /\ fetchedPostsCache' = SeqFilterOut(fetchedPostsCache, writeReqs[i].uri)
    /\ allPostsLoaded' = FALSE
    /\ ev' = EvUri("handleDeletePost", "deleted", "success", writeReqs[i].uri)
    /\ UNCHANGED <<prog, othervars, viewvars, pendingSave, slugField, rvars, session, cursor, isLoadingMore, uniqueCategories,
                   listReqs, nextUri>>

\* handleDeletePost after its await, deleteRecord failed
DeleteFails(i) ==
    /\ prog \in {"write", "filter"}
    /\ i \in DOMAIN writeReqs
    /\ writeReqs[i].kind = "delete"
    /\ writeReqs' = RemoveAt(writeReqs, i)
    /\ ev' = Ev("handleDeletePost", "failed", "error")
    /\ UNCHANGED <<prog, othervars, viewvars, pendingSave, slugField, rvars, session, fetchedPostsCache, cursor, isLoadingMore, allPostsLoaded,
                   uniqueCategories, listReqs, nextUri>>

\* String.prototype.toLowerCase, one character and a whole string
LowerChar(c) == IF c = "A" THEN "a" ELSE c
ToLowerCase(s) == [ i \in DOMAIN s |-> LowerChar(s[i]) ]

\* a string without its leading run of the character c
RECURSIVE StripLeading(_, _)
StripLeading(s, c) ==
    IF s # <<>> /\ Head(s) = c THEN StripLeading(Tail(s), c) ELSE s

\* a string without its trailing run of the character c
RECURSIVE StripTrailing(_, _)
StripTrailing(s, c) ==
    IF s # <<>> /\ s[Len(s)] = c THEN StripTrailing(SubSeq(s, 1, Len(s) - 1), c) ELSE s

\* String.prototype.trim on a string of characters
TrimStr(s) == StripTrailing(StripLeading(s, " "), " ")

\* replace(/c+/g, r): every maximal run of the character c becomes r
RECURSIVE ReplaceRuns(_, _, _)
ReplaceRuns(s, c, r) ==
    IF s = <<>> THEN <<>>
    ELSE IF Head(s) = c THEN <<r>> \o ReplaceRuns(StripLeading(s, c), c, r)
    ELSE <<Head(s)>> \o ReplaceRuns(Tail(s), c, r)

\* replace(/[^\w-]+/g, ''); \w matches the letters and the underscore
RemoveNonWord(s) == SelectSeq(s, LAMBDA c : c \in {"a", "A", "_", "-"})

\* sanitizeSlug with the hyphen runs collapsed before the characters outside
\* \w and the hyphen are removed
sanitizeSlugCollapsesFirst(inputSlug, final) ==
    IF inputSlug = <<>> THEN <<>>
    ELSE LET slug == RemoveNonWord(ReplaceRuns(ReplaceRuns(TrimStr(ToLowerCase(inputSlug)),
                                                           " ", "-"), "-", "-"))
         IN IF final THEN StripTrailing(StripLeading(slug, "-"), "-") ELSE slug

\* sanitizeSlug
sanitizeSlug(inputSlug, final) ==
    IF inputSlug = <<>> THEN <<>>
    ELSE LET slug == ReplaceRuns(RemoveNonWord(ReplaceRuns(TrimStr(ToLowerCase(inputSlug)),
                                                           " ", "-")), "-", "-")
         IN IF final THEN StripTrailing(StripLeading(slug, "-"), "-") ELSE slug

\* the slug pattern /^[a-z0-9]+(?:-[a-z0-9]+)*$/
ValidSlug(slug) ==
    /\ slug # <<>>
    /\ \A i \in DOMAIN slug : slug[i] \in {"a", "-"}
    /\ slug[1] # "-"
    /\ slug[Len(slug)] # "-"
    /\ \A i \in 1..(Len(slug) - 1) : ~(slug[i] = "-" /\ slug[i + 1] = "-")

\* checkValidity() of the slug field: the pattern attribute of the field is in
\* the page's HTML; the pattern is the one the record schema gives for slug
checkValidity(slug) == ValidSlug(slug)

\* parseDateTimeLocalString: the time parseISO reads, NoDate for null
parseDateTimeLocalString(v) == IF v >= 1 THEN v ELSE NoDate

\* parseCustomDateString: whether the custom format or `new Date` reads it
parseCustomDateString(v) == v >= 1 \/ v = LooseDate

\* validateFormAndToggleButton: the save button is enabled only when every
\* required field is non-empty after trimming, the slug field passes
\* checkValidity() against its pattern and publishedAt parses.  title stands
\* for the required text fields that are only tested for emptiness.
validateFormAndToggleButton(form) ==
    /\ Trim(form.title) # ""
    /\ Trim(form.category) # ""
    /\ TrimStr(form.slug) # <<>>
    /\ checkValidity(form.slug)
    /\ parseCustomDateString(form.publishedAt)

\* the value part of recordData built by handleSavePost: slug and publishedAt
\* as read before the comment URI is resolved, the other fields as read from
\* the form after it
RecordData(form, finalSlug, publishedAtISO) ==
    [title |-> Trim(form.title), category |-> Trim(form.category), slug |-> finalSlug,
     publishedAt |-> publishedAtISO, recommended |-> form.recommended]

\* the same without the session test of api.saveBlogPostRecord
SendSaveUnchecked(rkey, recordData) ==
    /\ Len(writeReqs) < MaxWriteReqs
    /\ writeReqs' = Append(writeReqs,
           [kind |-> IF rkey = 0 THEN "create" ELSE "update", uri |-> rkey,
            value |-> recordData, served |-> 0])
    /\ ev' = Ev("handleSavePost", "sent", "")

\* handleSavePost from the read of post-rkey to the await of
\* api.saveBlogPostRecord
SendSave(rkey, recordData) ==
    IF session = NoSession
    THEN /\ ev' = Ev("handleSavePost", "notLoggedIn", "error")
         /\ UNCHANGED writeReqs
    ELSE /\ Len(writeReqs) < MaxWriteReqs
         /\ writeReqs' = Append(writeReqs,
                [kind |-> IF rkey = 0 THEN "create" ELSE "update", uri |-> rkey,
                 value |-> recordData, served |-> 0])
         /\ ev' = Ev("handleSavePost", "sent", "")

\* the forms the save button lets a submit through with
Submittable(forms) == { form \in forms : validateFormAndToggleButton(form) }

\* handleSavePost, started by a submit of the form (the save button is
\* enabled), up to its first await: with a comment URL to resolve that is
\* the await of convertBskyUrlToAtUri, otherwise the await of
\* api.saveBlogPostRecord.  rkey = 0 is the empty post-rkey field (create),
\* otherwise the record being edited.
HandleSavePost(rkey, form) ==
    /\ prog \in {"write", "form"}
    /\ rkey \in {0} \cup Uris(fetchedPostsCache)
    /\ pendingSave = NoPending
    /\ UNCHANGED <<prog, othervars, viewvars, slugField, rvars, session, fetchedPostsCache, cursor, isLoadingMore, allPostsLoaded,
                   uniqueCategories, listReqs, nextUri>>
    /\ LET finalSlug == sanitizeSlug(form.slug, TRUE)
           publishedAtISO == parseDateTimeLocalString(form.publishedAt)
       IN IF publishedAtISO = NoDate
          THEN /\ ev' = Ev("handleSavePost", "invalid", "error")
               /\ UNCHANGED <<writeReqs, pendingSave>>
          ELSE IF form.comment # ""
          THEN /\ pendingSave' = <<[slug |-> finalSlug, publishedAt |-> publishedAtISO]>>
               /\ ev' = Ev("handleSavePost", "resolving", "")
               /\ UNCHANGED writeReqs
          ELSE /\ SendSave(rkey, RecordData(form, finalSlug, publishedAtISO))
               /\ UNCHANGED pendingSave

\* handleSavePost after the await of convertBskyUrlToAtUri: post-rkey and the
\* remaining fields are read from the form as it is now
HandleSavePostResumes(rkey, form, resolved) ==
    /\ prog = "form"
    /\ pendingSave # NoPending
    /\ rkey \in {0} \cup Uris(fetchedPostsCache)
    /\ pendingSave' = NoPending
    /\ UNCHANGED <<prog, othervars, viewvars, slugField, rvars, session, fetchedPostsCache, cursor, isLoadingMore, allPostsLoaded,
                   uniqueCategories, listReqs, nextUri>>
    /\ IF ~resolved
       THEN /\ ev' = Ev("handleSavePost", "invalid", "error")
            /\ UNCHANGED writeReqs
       ELSE SendSave(rkey, RecordData(form, pendingSave[1].slug, pendingSave[1].publishedAt))

\* the store executes createRecord and assigns the new record its uri; the
\* answer is still under way
StoreCreates(i) ==
    /\ prog \in {"write", "form"}
    /\ i \in DOMAIN writeReqs
    /\ writeReqs[i].kind = "create"
    /\ writeReqs[i].served = 0
    /\ nextUri <= NumUris
    /\ writeReqs' = [writeReqs EXCEPT ![i].served = nextUri]
    /\ nextUri' = nextUri + 1
    /\ ev' = Ev("store", "created", "")
    /\ UNCHANGED <<prog, othervars, viewvars, pendingSave, slugField, rvars, session, fetchedPostsCache, cursor, isLoadingMore, allPostsLoaded,
                   uniqueCategories, listReqs>>

\* the uri in the answer of createRecord / putRecord
SavedUri(req) == IF req.kind = "create" THEN req.served ELSE req.uri

\* the same with push in place of unshift
SmartCacheUpdatePushes(cache, req) ==
    IF req.kind = "update"
    THEN ReplaceByUri(cache, Rec(SavedUri(req), req.value))
    ELSE cache \o <<Rec(SavedUri(req), req.value)>>

\* the cache update of handleSavePost: replace on update, unshift on create
SmartCacheUpdate(cache, req) ==
    IF req.kind = "update"
    THEN ReplaceByUri(cache, Rec(SavedUri(req), req.value))
    ELSE <<Rec(SavedUri(req), req.value)>> \o cache

\* handleSavePost after its await, createRecord/putRecord succeeded
SaveSucceeds(i) ==
    /\ prog \in {"write", "form"}
    /\ i \in DOMAIN writeReqs
    /\ writeReqs[i].kind \in {"create", "update"}
    /\ writeReqs[i].kind = "create" => writeReqs[i].served # 0
    /\ Len(SmartCacheUpdate(fetchedPostsCache, writeReqs[i])) <= MaxCacheLen
    /\ writeReqs' = RemoveAt(writeReqs, i)
    /\ fetchedPostsCache' = SmartCacheUpdate(fetchedPostsCache, writeReqs[i])
    /\ allPostsLoaded' = FALSE
    /\ ev' = Ev("handleSavePost", IF writeReqs[i].kind = "create" THEN "created" ELSE "updated", "success")
    /\ UNCHANGED <<prog, othervars, viewvars, pendingSave, slugField, rvars, session, cursor, isLoadingMore, uniqueCategories,
                   listReqs, nextUri>>

\* handleSavePost after a failed save, with `_allPostsLoaded = false` run on
\* the failure path too
SaveFailsClearsLoaded(i) ==
    /\ prog = "write"
    /\ i \in DOMAIN writeReqs
    /\ writeReqs[i].kind \in {"create", "update"}
    /\ writeReqs' = RemoveAt(writeReqs, i)
    /\ allPostsLoaded' = FALSE
    /\ ev' = Ev("handleSavePost", "failed", "error")
    /\ UNCHANGED <<prog, othervars, viewvars, pendingSave, slugField, rvars, session, fetchedPostsCache, cursor, isLoadingMore,
                   uniqueCategories, listReqs, nextUri>>

\* handleSavePost after its await, createRecord/putRecord failed
SaveFails(i) ==
    /\ prog \in {"write", "form"}
    /\ i \in DOMAIN writeReqs
    /\ writeReqs[i].kind \in {"create", "update"}
    /\ writeReqs' = RemoveAt(writeReqs, i)
    /\ ev' = Ev("handleSavePost", "failed", "error")
    /\ UNCHANGED <<prog, othervars, viewvars, pendingSave, slugField, rvars, session, fetchedPostsCache, cursor, isLoadingMore, allPostsLoaded,
                   uniqueCategories, listReqs, nextUri>>

WNext ==
    \/ HandleLoginMissing
    \/ \E d \in DIDs : LoginSucceeds(d)
    \/ LoginFails
    \/ HandleLogout
    \/ HandleLoadMore
    \/ \E i \in 1..MaxListReqs : \E c \in CursorOpt : \E p \in Pages(PageSize) :
          /\ Len(appendPostsToCache(fetchedPostsCache, p)) <= MaxCacheLen
          /\ FetchSucceeds(i, p, c)
    \/ \E i \in 1..MaxListReqs : FetchFails(i)
    \/ \E u \in 1..NumUris : \E ok \in BOOLEAN : HandleDeletePost(u, ok)
    \/ \E i \in 1..MaxWriteReqs : DeleteSucceeds(i)
    \/ \E i \in 1..MaxWriteReqs : DeleteFails(i)
    \/ prog = "write" /\ \E u \in 0..NumUris : \E f \in Submittable(WriteForms) : HandleSavePost(u, f)
    \/ \E i \in 1..MaxWriteReqs : StoreCreates(i)
    \/ \E i \in 1..MaxWriteReqs : SaveSucceeds(i)
    \/ \E i \in 1..MaxWriteReqs : SaveFails(i)

\* ------------------------------------------------------ fetch-all walks
WalkPages == SeqsUpTo({ Rec(u, StoredValue(u)) : u \in 1..NumUris }, ListLimit)

\* the categories one page adds to accumulatedCategories
PageCategories(batchRecords) ==
    { Sanitize(batchRecords[i].value.category) : i \in
        { j \in DOMAIN batchRecords : batchRecords[j].value.category # "" } }

RInit ==
    /\ prog \in {"read", "find", "cli", "bot"}
    /\ RIdle
    /\ ViewDefaults
    /\ session = NoSession
    /\ fetchedPostsCache = <<>>
    /\ cursor = NoCursor
    /\ isLoadingMore = FALSE
    /\ allPostsLoaded = FALSE
    /\ uniqueCategories = {}
    /\ listReqs = <<>>
    /\ writeReqs = <<>>
    /\ nextUri = InitialUris + 1
    /\ ev = Ev("init", "", "")

\* read front end: handleRouteChange on a list url, displayPostList and
\* fetchAllRecordsForUser up to the first await of fetchRecords
HandleRouteChange ==
    /\ prog = "read"
    /\ wPc # "awaiting"
    /\ allFetchedPosts' = <<>>
    /\ rUniqueCategories' = {}
    /\ allRecords' = <<>>
    /\ pagesFetched' = 1
    /\ currentCursor' = NoCursor
    /\ wPc' = "awaiting"
    /\ wResult' = "none"
    /\ ev' = Ev("fetchAllRecordsForUser", "sent", "")
    /\ UNCHANGED <<prog, othervars, viewvars, pendingSave, slugField, wvars, wSlug, records>>

\* the same tests with an empty page taken as the end of the list
WalkEndsOnEmpty(batchRecords, nextCursor, fetched) ==
    nextCursor = NoCursor \/ fetched >= MaxPages \/ Len(batchRecords) = 0

\* the same tests with the page budget reached one page early
WalkEndsEarly(batchRecords, nextCursor, fetched) ==
    nextCursor = NoCursor \/ fetched >= MaxPages - 1

\* fetchAllRecordsForUser: the two break tests at the end of the loop body
WalkEnds(batchRecords, nextCursor, fetched) ==
    nextCursor = NoCursor \/ fetched >= MaxPages

\* fetchAllRecordsForUser: one page arrives; the loop body after the await,
\* then either the return into displayPostList or the next fetchRecords call
FetchAllRecordsForUserPage(batchRecords, nextCursor) ==
    /\ prog = "read"
    /\ wPc = "awaiting"
    /\ Len(allRecords) + Len(batchRecords) <= MaxWalkLen
    /\ allRecords' = IF Len(batchRecords) > 0 THEN allRecords \o batchRecords ELSE allRecords
    /\ rUniqueCategories' = IF Len(batchRecords) > 0
                            THEN rUniqueCategories \cup PageCategories(batchRecords)
                            ELSE rUniqueCategories
    /\ currentCursor' = nextCursor
    /\ IF WalkEnds(batchRecords, nextCursor, pagesFetched)
       THEN /\ wPc' = "done"
            /\ wResult' = "returned"
            /\ allFetchedPosts' = allRecords'
            /\ UNCHANGED pagesFetched
       ELSE /\ wPc' = "awaiting"
            /\ pagesFetched' = pagesFetched + 1
            /\ UNCHANGED <<wResult, allFetchedPosts>>
    /\ ev' = EvPage("fetchAllRecordsForUser", "page", Len(batchRecords))
    /\ UNCHANGED <<prog, othervars, viewvars, pendingSave, slugField, wvars, wSlug, records>>

\* response bodies of a failed listRecords call: the JSON field 'message'
ServerMessages == {"Internal Server Error", "Could not list records"}

\* fetchRecords: the message of the Error thrown for a response that is not
\* ok, as the phrases it is made of; for a status other than 400 the message
\* of the response body is appended to it
fetchRecordsErrorMsg(httpStatus, serverMessage) ==
    IF httpStatus = 400
    THEN <<"Could not list records", "Status 400">>
    ELSE <<"HTTP error! Status:", serverMessage>>

\* fetchAllRecordsForUser: fetchRecords throws; an error whose message holds
\* "Could not list records" or "Status 400" is turned into an empty list, any
\* other failure is thrown on and displayPostList renders it
FetchAllRecordsForUserFails(httpStatus, serverMessage) ==
    LET errorMsg == fetchRecordsErrorMsg(httpStatus, serverMessage)
        notFound == \E i \in DOMAIN errorMsg :
                        errorMsg[i] \in {"Could not list records", "Status 400"}
    IN  /\ prog = "read"
        /\ wPc = "awaiting"
        /\ wPc' = "done"
        /\ IF notFound
           THEN /\ wResult' = "empty"
                /\ allFetchedPosts' = <<>>
                /\ ev' = EvUri("fetchAllRecordsForUser", "failed", "", httpStatus)
           ELSE /\ wResult' = "thrown"
                /\ UNCHANGED allFetchedPosts
                /\ ev' = EvUri("fetchAllRecordsForUser", "failed", "error", httpStatus)
        /\ UNCHANGED <<prog, othervars, viewvars, pendingSave, slugField, wvars, allRecords, pagesFetched, currentCursor, wSlug,
                       rUniqueCategories, records>>

\* read front end: handleRouteChange on a single-post url, displaySinglePost
\* and findRecordBySlug up to the first await.  Records are told apart by uri
\* here: the slug looked for is the slug of record `slugOf`.
DisplaySinglePost(slugOf) ==
    /\ prog = "find"
    /\ wPc # "awaiting"
    /\ allFetchedPosts' = <<>>
    /\ rUniqueCategories' = {}
    /\ wSlug' = slugOf
    /\ pagesFetched' = 1
    /\ currentCursor' = NoCursor
    /\ wPc' = "awaiting"
    /\ wResult' = "none"
    /\ ev' = Ev("findRecordBySlug", "sent", "")
    /\ UNCHANGED <<prog, othervars, viewvars, pendingSave, slugField, wvars, allRecords, records>>

\* findRecordBySlug: one page arrives
FindRecordBySlugPage(pageRecords, nextCursor) ==
    /\ prog = "find"
    /\ wPc = "awaiting"
    /\ IF wSlug \in Uris(pageRecords)
       THEN /\ wPc' = "done"
            /\ wResult' = "found"
            /\ UNCHANGED <<currentCursor, pagesFetched>>
       ELSE /\ currentCursor' = nextCursor
            /\ IF nextCursor = NoCursor \/ pagesFetched >= MaxPagesToCheck
               THEN /\ wPc' = "done"
                    /\ wResult' = "null"
                    /\ UNCHANGED pagesFetched
               ELSE /\ wPc' = "awaiting"
                    /\ pagesFetched' = pagesFetched + 1
                    /\ UNCHANGED wResult
    /\ ev' = EvPage("findRecordBySlug", "page", Len(pageRecords))
    /\ UNCHANGED <<prog, othervars, viewvars, pendingSave, slugField, wvars, allRecords, wSlug, allFetchedPosts, rUniqueCategories, records>>

\* findRecordBySlug: fetchRecords throws, the catch returns null
FindRecordBySlugFails ==
    /\ prog = "find"
    /\ wPc = "awaiting"
    /\ wPc' = "done"
    /\ wResult' = "null"
    /\ ev' = Ev("findRecordBySlug", "failed", "error")
    /\ UNCHANGED <<prog, othervars, viewvars, pendingSave, slugField, wvars, allRecords, pagesFetched, currentCursor, wSlug,
                   allFetchedPosts, rUniqueCategories, records>>

\* CLI: exportPosts calls fetchAllRecords, up to the first listRecords call.
\* The local `page` is only printed and is not followed.
ExportPosts ==
    /\ prog = "cli"
    /\ wPc # "awaiting"
    /\ allRecords' = <<>>
    /\ currentCursor' = NoCursor
    /\ records' = <<>>
    /\ wPc' = "awaiting"
    /\ wResult' = "none"
    /\ ev' = Ev("fetchAllRecords", "sent", "")
    /\ UNCHANGED <<prog, othervars, viewvars, pendingSave, slugField, wvars, pagesFetched, wSlug, allFetchedPosts, rUniqueCategories>>

\* CLI fetchAllRecords: listRecords answers; without res.data.records the
\* cursor is dropped; the loop goes on while there is a cursor
FetchAllRecordsPage(pageRecords, nextCursor, hasRecords) ==
    /\ prog = "cli"
    /\ wPc = "awaiting"
    /\ Len(allRecords) + Len(pageRecords) <= MaxWalkLen
    /\ allRecords' = IF hasRecords THEN allRecords \o pageRecords ELSE allRecords
    /\ currentCursor' = IF hasRecords THEN nextCursor ELSE NoCursor
    /\ IF currentCursor' # NoCursor
       THEN /\ wPc' = "awaiting"
            /\ UNCHANGED <<wResult, records>>
       ELSE /\ wPc' = "done"
            /\ wResult' = "returned"
            /\ records' = allRecords'
    /\ ev' = EvPage("fetchAllRecords", "page", IF hasRecords THEN Len(pageRecords) ELSE 0)
    /\ UNCHANGED <<prog, othervars, viewvars, pendingSave, slugField, wvars, pagesFetched, wSlug, allFetchedPosts, rUniqueCategories>>

\* CLI fetchAllRecords: listRecords throws, the catch returns []
FetchAllRecordsFails ==
    /\ prog = "cli"
    /\ wPc = "awaiting"
    /\ currentCursor' = NoCursor
    /\ wPc' = "done"
    /\ wResult' = "empty"
    /\ records' = <<>>
    /\ ev' = Ev("fetchAllRecords", "failed", "error")
    /\ UNCHANGED <<prog, othervars, viewvars, pendingSave, slugField, wvars, allRecords, pagesFetched, wSlug, allFetchedPosts,
                   rUniqueCategories>>

\* bot: getExistingBookmarkDetails calls listAllRecords; without auth headers
\* or session did it returns [] at once, otherwise the first call goes out
GetExistingBookmarkDetails(authOk) ==
    /\ prog = "bot"
    /\ wPc # "awaiting"
    /\ allRecords' = <<>>
    /\ currentCursor' = NoCursor
    /\ records' = <<>>
    /\ IF authOk
       THEN /\ wPc' = "awaiting"
            /\ wResult' = "none"
            /\ ev' = Ev("listAllRecords", "sent", "")
       ELSE /\ wPc' = "done"
            /\ wResult' = "empty"
            /\ ev' = Ev("listAllRecords", "noAuth", "")
    /\ UNCHANGED <<prog, othervars, viewvars, pendingSave, slugField, wvars, pagesFetched, wSlug, allFetchedPosts, rUniqueCategories>>

\* bot listAllRecords: a page arrives; the loop goes on while a cursor is returned
ListAllRecordsPage(pageRecords, nextCursor) ==
    /\ prog = "bot"
    /\ wPc = "awaiting"
    /\ Len(allRecords) + Len(pageRecords) <= MaxWalkLen
    /\ allRecords' = allRecords \o pageRecords
    /\ currentCursor' = nextCursor
    /\ IF nextCursor # NoCursor
       THEN /\ wPc' = "awaiting"
            /\ UNCHANGED <<wResult, records>>
       ELSE /\ wPc' = "done"
            /\ wResult' = "returned"
            /\ records' = allRecords'
    /\ ev' = EvPage("listAllRecords", "page", Len(pageRecords))
    /\ UNCHANGED <<prog, othervars, viewvars, pendingSave, slugField, wvars, pagesFetched, wSlug, allFetchedPosts, rUniqueCategories>>

\* bot listAllRecords: response not ok, or fetch throws: [] is returned
ListAllRecordsFails ==
    /\ prog = "bot"
    /\ wPc = "awaiting"
    /\ wPc' = "done"
    /\ wResult' = "empty"
    /\ records' = <<>>
    /\ ev' = Ev("listAllRecords", "failed", "")
    /\ UNCHANGED <<prog, othervars, viewvars, pendingSave, slugField, wvars, allRecords, pagesFetched, currentCursor, wSlug,
                   allFetchedPosts, rUniqueCategories>>

RNext ==
    \/ HandleRouteChange
    \/ \E p \in WalkPages : \E c \in WalkCursorOpt : FetchAllRecordsForUserPage(p, c)
    \/ \E st \in {400, 500}, m \in ServerMessages : FetchAllRecordsForUserFails(st, m)
    \/ \E u \in 1..(NumUris + 1) : DisplaySinglePost(u)
    \/ \E p \in WalkPages : \E c \in WalkCursorOpt : FindRecordBySlugPage(p, c)
    \/ FindRecordBySlugFails
    \/ ExportPosts
    \/ \E p \in WalkPages : \E c \in WalkCursorOpt : \E h \in BOOLEAN : FetchAllRecordsPage(p, c, h)
    \/ FetchAllRecordsFails
    \/ \E a \in BOOLEAN : GetExistingBookmarkDetails(a)
    \/ \E p \in WalkPages : \E c \in WalkCursorOpt : ListAllRecordsPage(p, c)
    \/ ListAllRecordsFails

\* ------------------------------------------- a store that lists its records
\* The record store of spec section 6 as the list calls see it: it holds the
\* records of uris 1..nextUri-1, lists them newest first (the record made
\* last first) in pages of the asked size and hands out a cursor with every
\* page but the last.
StoreCount == nextUri - 1
StoreRecords == [ i \in 1..StoreCount |-> Rec(nextUri - i, StoredValue(nextUri - i)) ]

\* the cursor handed out with the page that ends at record number k * limit
CursorNames == <<"c1", "c2", "c3", "c4">>
\* where the page asked for with cursor c starts
StoreOffset(c, limit) ==
    IF c = NoCursor THEN 0
    ELSE limit * (CHOOSE k \in DOMAIN CursorNames : CursorNames[k] = c)

StorePage(c, limit) ==
    LET from == StoreOffset(c, limit)
        to == IF from + limit < StoreCount THEN from + limit ELSE StoreCount
    IN SubSeq(StoreRecords, from + 1, to)

StoreCursor(c, limit) ==
    LET to == StoreOffset(c, limit) + limit
    IN IF to < StoreCount THEN CursorNames[to \div limit] ELSE NoCursor

\* pages the store needs for all its records
StorePageCount(limit) ==
    IF StoreCount = 0 THEN 1 ELSE (StoreCount + limit - 1) \div limit

\* one of the programs starts against a store of any size
SInit ==
    /\ prog \in {"write", "read", "cli", "bot"}
    /\ RIdle
    /\ ViewDefaults
    /\ session = NoSession
    /\ fetchedPostsCache = <<>>
    /\ cursor = NoCursor
    /\ isLoadingMore = FALSE
    /\ allPostsLoaded = FALSE
    /\ uniqueCategories = {}
    /\ listReqs = <<>>
    /\ writeReqs = <<>>
    /\ nextUri \in 1..(MaxWalkLen + 1)
    /\ ev = Ev("init", "", "")

\* the walks with every list call answered by that store, or failing
SNext ==
    \/ session = NoSession /\ \E d \in DIDs : LoginSucceeds(d)
    \/ HandleLoadMore
    \/ \E i \in DOMAIN listReqs :
          FetchSucceeds(i, StorePage(listReqs[i].cursor, PageSize),
                           StoreCursor(listReqs[i].cursor, PageSize))
    \/ \E i \in DOMAIN listReqs : FetchFails(i)
    \/ HandleRouteChange
    \/ FetchAllRecordsForUserPage(StorePage(currentCursor, ListLimit),
                                  StoreCursor(currentCursor, ListLimit))
    \/ \E st \in {400, 500}, m \in ServerMessages : FetchAllRecordsForUserFails(st, m)
    \/ ExportPosts
    \/ FetchAllRecordsPage(StorePage(currentCursor, ListLimit),
                           StoreCursor(currentCursor, ListLimit), TRUE)
    \/ FetchAllRecordsFails
    \/ \E a \in BOOLEAN : GetExistingBookmarkDetails(a)
    \/ ListAllRecordsPage(StorePage(currentCursor, ListLimit),
                          StoreCursor(currentCursor, ListLimit))
    \/ ListAllRecordsFails

\* ------------------------------------------- the list as the page shows it
\* String.prototype.toLowerCase on the strings of the model
LowerStr(s) ==
    IF s = "B" THEN "b" ELSE IF s = "A" THEN "a"
    ELSE IF s = "Recommended" THEN "recommended" ELSE s

\* String.prototype.includes on the lower-cased strings of the model
Includes(s, t) == t = "" \/ s = t \/ (t = "b" /\ s \in {" b& ", "b&"})

\* the same on a slug
SlugIncludes(slug, t) == t = "" \/ \E i \in DOMAIN slug : LowerChar(slug[i]) = t

\* getFilteredAndSortedPosts: the category filter
CategoryFilter(posts, category) ==
    IF category = "" THEN posts
    ELSE IF category = "Recommended"
    THEN SelectSeq(posts, LAMBDA post : post.value.recommended = TRUE)
    ELSE SelectSeq(posts, LAMBDA post : post.value.category = category)

\* getFilteredAndSortedPosts: the search filter
SearchFilter(posts, term) ==
    IF term = "" THEN posts
    ELSE SelectSeq(posts, LAMBDA post :
            \/ Includes(LowerStr(post.value.title), LowerStr(term))
            \/ SlugIncludes(post.value.slug, LowerStr(term))
            \/ Includes(LowerStr(post.value.category), LowerStr(term)))

\* isValid(date) for the date either front end builds from publishedAt
IsValidDate(publishedAt) == publishedAt # BadDate

\* the time of that date: `new Date(0)` when the field is missing or empty
TimeOf(publishedAt) == IF publishedAt = NoDate THEN 0 ELSE publishedAt

\* the sign of x
Sign(x) == IF x < 0 THEN -1 ELSE IF x > 0 THEN 1 ELSE 0

\* sortCompareFn of getFilteredAndSortedPosts
sortCompareFn(a, b, order) ==
    LET dateA == a.value.publishedAt
        dateB == b.value.publishedAt
    IN IF ~IsValidDate(dateA) /\ ~IsValidDate(dateB) THEN 0
       ELSE IF ~IsValidDate(dateA) THEN 1
       ELSE IF ~IsValidDate(dateB) THEN -1
       ELSE IF order = "oldest" THEN Sign(TimeOf(dateA) - TimeOf(dateB))
       ELSE Sign(TimeOf(dateB) - TimeOf(dateA))

\* the compare function of applyFiltersSortAndRenderList
rendererCompareFn(a, b, order) ==
    LET dateA == a.value.publishedAt
        dateB == b.value.publishedAt
    IN IF ~IsValidDate(dateA) \/ ~IsValidDate(dateB) THEN 0
       ELSE IF order = "oldest" THEN Sign(TimeOf(dateA) - TimeOf(dateB))
       ELSE Sign(TimeOf(dateB) - TimeOf(dateA))

\* the compare function of one front end
CompareFn(fe, a, b, order) ==
    IF fe = "write" THEN sortCompareFn(a, b, order) ELSE rendererCompareFn(a, b, order)

\* Array.prototype.sort is stable: an element goes before the first one the
\* compare function puts after it
RECURSIVE InsertInOrder(_, _, _, _)
InsertInOrder(sorted, x, fe, order) ==
    IF sorted = <<>> THEN <<x>>
    ELSE IF CompareFn(fe, Head(sorted), x, order) > 0 THEN <<x>> \o sorted
    ELSE <<Head(sorted)>> \o InsertInOrder(Tail(sorted), x, fe, order)

RECURSIVE ArraySortFrom(_, _, _, _)
ArraySortFrom(sorted, rest, fe, order) ==
    IF rest = <<>> THEN sorted
    ELSE ArraySortFrom(InsertInOrder(sorted, Head(rest), fe, order), Tail(rest), fe, order)

\* Array.prototype.sort with a consistent compare function
ArraySort(posts, fe, order) == ArraySortFrom(<<>>, posts, fe, order)

\* getFilteredAndSortedPosts
getFilteredAndSortedPosts(posts, term, category, order) ==
    ArraySort(SearchFilter(CategoryFilter(posts, category), term), "write", order)

\* renderPostList: the list the write front end shows
postsToDisplay ==
    getFilteredAndSortedPosts(fetchedPostsCache, searchTerm, filterCategory, sortOrder)

\* whether the compare function of the read front end orders these posts
\* consistently: an unparseable date compares equal to every other date, so
\* it does not as soon as two parseable dates differ beside one
ConsistentForRenderer(posts) ==
    \/ \A i \in DOMAIN posts : IsValidDate(posts[i].value.publishedAt)
    \/ \A i, j \in DOMAIN posts :
          (IsValidDate(posts[i].value.publishedAt) /\ IsValidDate(posts[j].value.publishedAt))
             => TimeOf(posts[i].value.publishedAt) = TimeOf(posts[j].value.publishedAt)

\* the orders of the same posts
Reorderings(posts) ==
    { [ i \in DOMAIN posts |-> posts[f[i]] ] :
        f \in { g \in [DOMAIN posts -> DOMAIN posts] : \A i, j \in DOMAIN posts : g[i] = g[j] => i = j } }

\* the sort of applyFiltersSortAndRenderList: with an inconsistent compare
\* function the order Array.prototype.sort leaves is implementation-defined
RendererSortOutcomes(posts, order) ==
    IF ConsistentForRenderer(posts) THEN { ArraySort(posts, "read", order) }
    ELSE Reorderings(posts)

\* the filter of applyFiltersSortAndRenderList: the sentinel 'recommended',
\* the category compared in lower case, the search over title, description,
\* category and content
RendererFilter(posts, term, categoryFilter) ==
    SelectSeq(posts, LAMBDA record :
       /\ ~(categoryFilter = "recommended" /\ ~record.value.recommended)
       /\ ~(/\ categoryFilter # ""
            /\ categoryFilter # "recommended"
            /\ LowerStr(record.value.category) # LowerStr(categoryFilter))
       /\ LowerStr(term) # "" =>
             \/ Includes(LowerStr(record.value.title), LowerStr(term))
             \/ Includes(LowerStr(record.value.category), LowerStr(term)))

\* applyFiltersSortAndRenderList: the lists the read front end may show
applyFiltersSortAndRenderList(posts, term, categoryFilter, order) ==
    RendererSortOutcomes(RendererFilter(posts, term, categoryFilter), order)

\* handleSearchChange
HandleSearchChange(term) ==
    /\ prog = "view"
    /\ searchTerm' = Trim(term)
    /\ ev' = Ev("handleSearchChange", "", "")
    /\ UNCHANGED <<prog, othervars, filterCategory, sortOrder, pendingSave, slugField, rvars, wvars>>

\* handleFilterChange
HandleFilterChange(category) ==
    /\ prog = "view"
    /\ filterCategory' = category
    /\ ev' = Ev("handleFilterChange", "", "")
    /\ UNCHANGED <<prog, othervars, searchTerm, sortOrder, pendingSave, slugField, rvars, wvars>>

\* handleSortChange
HandleSortChange(order) ==
    /\ prog = "view"
    /\ sortOrder' = order
    /\ ev' = Ev("handleSortChange", "", "")
    /\ UNCHANGED <<prog, othervars, searchTerm, filterCategory, pendingSave, slugField, rvars, wvars>>

\* the write front end logged in, with some list loaded and perhaps a page
\* request under way; the list holds the records 1..n of the store, each
\* with any publishedAt
VInit ==
    /\ prog = "view"
    /\ RIdle
    /\ ViewDefaults
    /\ session \in DIDs
    /\ fetchedPostsCache \in
          LET PublishedAts == {NoDate, BadDate} \cup 1..MaxDate
              DatedRec(u, d) == Rec(u, [StoredValue(u) EXCEPT !.publishedAt = d])
          IN  UNION { { [ u \in 1..n |-> DatedRec(u, d[u]) ] : d \in [1..n -> PublishedAts] } :
                      n \in 0..MaxViewLen }
    /\ cursor \in CursorOpt
    /\ allPostsLoaded \in BOOLEAN
    /\ isLoadingMore \in BOOLEAN
    /\ ~(allPostsLoaded /\ isLoadingMore)
    /\ uniqueCategories = updateUniqueCategories({}, fetchedPostsCache)
    /\ listReqs = IF isLoadingMore THEN <<[cursor |-> cursor, did |-> session]>> ELSE <<>>
    /\ writeReqs = <<>>
    /\ nextUri = MaxViewLen + 1
    /\ ev = Ev("init", "", "")

\* the list controls with their inputs
VNext ==
    \/ \E term \in {"", " B ", "a"} : HandleSearchChange(term)
    \/ \E category \in {"", "Recommended", "recommended", "a", "A", "b&"} :
           HandleFilterChange(category)
    \/ \E order \in {"newest", "oldest"} : HandleSortChange(order)

\* the post form of the write front end, logged in with an empty list: its
\* submits, and its slug field
FInit ==
    /\ prog \in {"form", "slug"}
    /\ RIdle
    /\ ViewDefaults
    /\ session \in DIDs
    /\ fetchedPostsCache = <<>>
    /\ cursor = NoCursor
    /\ isLoadingMore = FALSE
    /\ allPostsLoaded = TRUE
    /\ uniqueCategories = {}
    /\ listReqs = <<>>
    /\ writeReqs = <<>>
    /\ nextUri = InitialUris + 1
    /\ ev = Ev("init", "", "")

\* the submit of any form the save button lets through, and the return of
\* convertBskyUrlToAtUri to a form edited meanwhile; the answers of the store
\* are those of WNext
FNext ==
    \/ prog = "form" /\ \E u \in 0..NumUris : \E f \in Submittable(Forms) : HandleSavePost(u, f)
    \/ prog = "form" /\ \E u \in 0..NumUris : \E f \in Forms : \E ok \in BOOLEAN : HandleSavePostResumes(u, f, ok)

\* ------------------------------------------------ the slug field of the form
\* populateForm: the field takes the slug of the record being edited
PopulateForm(slug) ==
    /\ prog = "slug"
    /\ slugField' = slug
    /\ ev' = Ev("populateForm", "", "")
    /\ UNCHANGED <<prog, othervars, viewvars, pendingSave, rvars, wvars>>

\* the input listener of the slug field: the value as typed is sanitized
SlugInput(typed) ==
    /\ prog = "slug"
    /\ slugField' = sanitizeSlug(typed, FALSE)
    /\ ev' = Ev("slugInput", "", "")
    /\ UNCHANGED <<prog, othervars, viewvars, pendingSave, rvars, wvars>>

\* the blur listener of the slug field
SlugBlur ==
    /\ prog = "slug"
    /\ slugField' = sanitizeSlug(slugField, TRUE)
    /\ ev' = Ev("slugBlur", "", "")
    /\ UNCHANGED <<prog, othervars, viewvars, pendingSave, rvars, wvars>>

LNext ==
    \/ prog = "slug" /\ \E slug \in SlugStrings : PopulateForm(slug)
    \/ prog = "slug" /\ \E typed \in SlugStrings : SlugInput(typed)
    \/ SlugBlur

\* ------------------------------------- the optional fields of a saved post
\* a field of a record that holds the value null
Null == "null"
\* a field that is undefined or deleted: JSON leaves it out of the record
Absent == "absent"
\* the same for a date field
AbsentDate == -4
\* the time `new Date()` gives when a save runs
Now == MaxDate + 1

\* the optional inputs of the post form and of the CLI prompts: updatedAt (a
\* time, NoDate for an empty or cleared field, BadDate for text no parser
\* reads, LooseDate for the custom format), the comment reference as entered,
\* the cover image url and the comma separated tags.  One field at a time
\* departs from the empty form.
OptionalForms ==
    LET EmptyFields == [updatedAt |-> NoDate, comment |-> "", coverImage |-> "", tags |-> ""]
    IN { [EmptyFields EXCEPT !.updatedAt = d] : d \in {NoDate, BadDate, LooseDate, 1} }
       \cup { [EmptyFields EXCEPT !.comment = c] : c \in {"junk", "at://x", "url"} }
       \cup { [EmptyFields EXCEPT !.coverImage = c] : c \in {" ", "c"} }
       \cup { [EmptyFields EXCEPT !.tags = "T, "] }

\* split(',').map(t => t.trim()).filter(Boolean), lower-cased by the write
\* front end
ParseTags(tags, lower) ==
    IF tags = "T, " THEN <<IF lower THEN "t" ELSE "T">> ELSE <<>>

\* convertBskyUrlToAtUri of the write front end: the identifier it returns
\* (Null for null) and the class it leaves on the status element.  "at://x"
\* is a well-formed identifier, "url" a bsky.app post url with a handle that
\* resolves or not, "junk" text of neither shape.
convertBskyUrlToAtUri(urlInput, resolves) ==
    IF Trim(urlInput) = "" THEN [uri |-> Null, status |-> ""]
    ELSE IF urlInput = "at://x" THEN [uri |-> "at://x", status |-> "valid"]
    ELSE IF urlInput = "url"
    THEN IF resolves THEN [uri |-> "at://x", status |-> "valid"]
         ELSE [uri |-> Null, status |-> "error"]
    ELSE [uri |-> Null, status |-> "invalid"]

\* convertBskyUrlToAtUri of the CLI: the identifier or null, no status
cliConvertBskyUrlToAtUri(urlInput, resolves) ==
    IF Trim(urlInput) = "" THEN Null
    ELSE IF urlInput = "at://x" THEN "at://x"
    ELSE IF urlInput = "url" /\ resolves THEN "at://x"
    ELSE Null

\* parseCustomDateString of the CLI: the time read by the custom format, by
\* parseISO or by `new Date`, NoDate for null.  The custom format text of
\* the model denotes the time MaxDate.
cliParseCustomDateString(input) ==
    IF input >= 1 THEN input ELSE IF input = LooseDate THEN MaxDate ELSE NoDate

\* a record value of the programs below: required fields that pass every
\* test, and the optional fields
PostValue(updatedAt, commentUri, coverImage, tags) ==
    [title |-> "t", category |-> "a", slug |-> <<"a">>, publishedAt |-> 1,
     recommended |-> FALSE,
     updatedAt |-> updatedAt, bskyCommentsPostUri |-> commentUri,
     coverImage |-> coverImage, tags |-> tags]

\* recordData of handleSavePost, optional fields as the form gives them
SaveRecordData(rkey, form, updatedAtISO, commentAtUri) ==
    PostValue(IF rkey # 0 THEN (IF updatedAtISO # NoDate THEN updatedAtISO ELSE Now)
              ELSE AbsentDate,
              commentAtUri,
              IF Trim(form.coverImage) = "" THEN Absent ELSE Trim(form.coverImage),
              ParseTags(form.tags, TRUE))

\* the same with updatedAt filled in for a new post as well
saveBlogPostRecordKeepsUpdatedAt(recordData, rkey) ==
    [recordData EXCEPT !.updatedAt = IF @ \in {AbsentDate, NoDate} THEN Now ELSE @]

\* api.saveBlogPostRecord up to its request: updatedAt is deleted for a new
\* post and set to the current time for an edit that has none; keys whose
\* value is undefined are deleted, a key whose value is null stays
saveBlogPostRecord(recordData, rkey) ==
    [recordData EXCEPT !.updatedAt = IF rkey = 0 THEN AbsentDate
                                     ELSE IF @ \in {AbsentDate, NoDate} THEN Now ELSE @]

\* a create or update request of the programs below: what is sent, the
\* inputs it was made from and the answer of the store ("none" until then)
SaveRequest(rkey, value, form, resolves) ==
    [kind |-> IF rkey = 0 THEN "create" ELSE "update", uri |-> rkey, value |-> value,
     served |-> 0, form |-> form, resolved |-> resolves, answer |-> "none"]

\* handleSavePost of the write front end with the required fields in order,
\* up to the await of api.saveBlogPostRecord.  No save is under way: the
\* loading overlay is up until a save has been answered, and the CLI and
\* the bot await each request before they go on.
HandleSavePostOptional(rkey, form, resolves) ==
    /\ prog = "save"
    /\ rkey \in {0} \cup Uris(fetchedPostsCache)
    /\ session # NoSession
    /\ writeReqs = <<>>
    /\ UNCHANGED <<prog, othervars, viewvars, pendingSave, slugField, rvars, session, fetchedPostsCache, cursor,
                   isLoadingMore, allPostsLoaded, uniqueCategories, listReqs, nextUri>>
    /\ LET updatedAtISO == IF form.updatedAt = NoDate THEN NoDate
                           ELSE parseDateTimeLocalString(form.updatedAt)
           converted == convertBskyUrlToAtUri(form.comment, resolves)
       IN IF form.updatedAt # NoDate /\ updatedAtISO = NoDate
          THEN /\ ev' = Ev("handleSavePost", "invalidDate", "error")
               /\ UNCHANGED writeReqs
          ELSE IF Trim(form.comment) # "" /\ converted.uri = Null /\ converted.status = "error"
          THEN /\ ev' = Ev("handleSavePost", "commentError", "error")
               /\ UNCHANGED writeReqs
          ELSE /\ writeReqs' = Append(writeReqs,
                      SaveRequest(rkey,
                          saveBlogPostRecord(
                              SaveRecordData(rkey, form, updatedAtISO, converted.uri), rkey),
                          form, resolves))
               /\ ev' = Ev("handleSavePost", "sent", "")

\* CLI createPost from 'Save Post' with the required fields in order, up to
\* the await of createRecord; updatedAt is not asked for
CreatePost(post, resolves) ==
    /\ prog = "clisave"
    /\ writeReqs = <<>>
    /\ post.updatedAt = NoDate
    /\ post.comment # "junk"
    /\ LET finalCommentUri == cliConvertBskyUrlToAtUri(post.comment, resolves)
       IN writeReqs' = Append(writeReqs,
              SaveRequest(0,
                  PostValue(AbsentDate,
                            IF finalCommentUri = Null THEN Absent ELSE finalCommentUri,
                            IF Trim(post.coverImage) = "" THEN Absent ELSE Trim(post.coverImage),
                            ParseTags(post.tags, FALSE)),
                  post, resolves))
    /\ ev' = Ev("createPost", "sent", "")
    /\ UNCHANGED <<prog, othervars, viewvars, pendingSave, slugField, rvars, session, fetchedPostsCache, cursor,
                   isLoadingMore, allPostsLoaded, uniqueCategories, listReqs, nextUri>>

\* CLI editPost from 'Save Changes' with the required fields in order, up to
\* the await of putRecord.  postToEdit holds what the stored record held or
\* what the prompts put in its place.  updatedAt is the input if it parses,
\* otherwise the current time.
EditPost(uri, postToEdit, resolves) ==
    /\ prog = "clisave"
    /\ uri \in 1..InitialUris
    /\ writeReqs = <<>>
    /\ LET parsedUpdateDate == cliParseCustomDateString(postToEdit.updatedAt)
           finalUpdatedAtISO == IF postToEdit.updatedAt # NoDate /\ parsedUpdateDate # NoDate
                                THEN parsedUpdateDate ELSE Now
           finalCommentUri == cliConvertBskyUrlToAtUri(postToEdit.comment, resolves)
       IN writeReqs' = Append(writeReqs,
              SaveRequest(uri,
                  PostValue(finalUpdatedAtISO,
                            IF finalCommentUri = Null THEN Absent ELSE finalCommentUri,
                            IF postToEdit.coverImage = "" THEN Absent ELSE postToEdit.coverImage,
                            ParseTags(postToEdit.tags, FALSE)),
                  postToEdit, resolves))
    /\ ev' = Ev("editPost", "sent", "")
    /\ UNCHANGED <<prog, othervars, viewvars, pendingSave, slugField, rvars, session, fetchedPostsCache, cursor,
                   isLoadingMore, allPostsLoaded, uniqueCategories, listReqs, nextUri>>

\* bot savePostToLexicon up to the await of its createRecord request, which
\* creates a record of the bookmark collection; without auth headers or
\* session did it returns at once
SavePostToLexicon(category, authOk) ==
    /\ prog = "botsave"
    /\ writeReqs = <<>>
    /\ IF authOk
       THEN /\ writeReqs' = Append(writeReqs,
                   [SaveRequest(0, [uri |-> "at://x", category |-> Trim(category)],
                                [category |-> category], TRUE) EXCEPT !.kind = "bookmark"])
            /\ ev' = Ev("savePostToLexicon", "sent", "")
       ELSE /\ ev' = Ev("savePostToLexicon", "noAuth", "")
            /\ UNCHANGED writeReqs
    /\ UNCHANGED <<prog, othervars, viewvars, pendingSave, slugField, rvars, session, fetchedPostsCache, cursor,
                   isLoadingMore, allPostsLoaded, uniqueCategories, listReqs, nextUri>>

\* how the store turns a request down: "conflict" is HTTP status 409,
\* "exists" status 400 with the message 'Record already exists', "other"
\* any other failure
Rejections == {"conflict", "exists", "other"}
\* the two that say the record is there already
DuplicateRejections == {"conflict", "exists"}

\* the store answers a create or update request of these programs: it
\* executes it (a created record gets the next uri) or turns it down
StoreAnswers(i, answer) ==
    /\ prog \in {"save", "clisave", "botsave"}
    /\ i \in DOMAIN writeReqs
    /\ writeReqs[i].answer = "none"
    /\ IF answer = "ok" /\ writeReqs[i].kind = "create"
       THEN /\ nextUri <= NumUris
            /\ writeReqs' = [writeReqs EXCEPT ![i].answer = answer, ![i].served = nextUri]
            /\ nextUri' = nextUri + 1
       ELSE /\ writeReqs' = [writeReqs EXCEPT ![i].answer = answer]
            /\ UNCHANGED nextUri
    /\ ev' = Ev("store", answer, "")
    /\ UNCHANGED <<prog, othervars, viewvars, pendingSave, slugField, rvars, session, fetchedPostsCache, cursor,
                   isLoadingMore, allPostsLoaded, uniqueCategories, listReqs>>

\* what the caller of a turned-down save gets.  The write front end and the
\* CLI put the message of the store into one 'Failed to ...' text whatever
\* the failure; the bot has a message of its own for a conflict.
SaveFailureOutcome(program, answer) ==
    IF program = "botsave" /\ answer \in DuplicateRejections THEN "alreadySaved"
    ELSE IF program = "botsave" THEN "apiError"
    ELSE "failed"

\* handleSavePost after the await of api.saveBlogPostRecord
HandleSavePostAnswered(i) ==
    /\ prog = "save"
    /\ i \in DOMAIN writeReqs
    /\ writeReqs[i].answer # "none"
    /\ writeReqs' = RemoveAt(writeReqs, i)
    /\ IF writeReqs[i].answer = "ok"
       THEN /\ Len(SmartCacheUpdate(fetchedPostsCache, writeReqs[i])) <= MaxCacheLen
            /\ fetchedPostsCache' = SmartCacheUpdate(fetchedPostsCache, writeReqs[i])
            /\ allPostsLoaded' = FALSE
            /\ ev' = Ev("handleSavePost",
                        IF writeReqs[i].kind = "create" THEN "created" ELSE "updated", "success")
       ELSE /\ ev' = Ev("handleSavePost", SaveFailureOutcome(prog, writeReqs[i].answer), "error")
            /\ UNCHANGED <<fetchedPostsCache, allPostsLoaded>>
    /\ UNCHANGED <<prog, othervars, viewvars, pendingSave, slugField, rvars, session, cursor, isLoadingMore,
                   uniqueCategories, listReqs, nextUri>>

\* CLI createPost / editPost and bot savePostToLexicon after their await
SaveAnswered(i) ==
    /\ prog \in {"clisave", "botsave"}
    /\ i \in DOMAIN writeReqs
    /\ writeReqs[i].answer # "none"
    /\ writeReqs' = RemoveAt(writeReqs, i)
    /\ ev' = Ev(IF prog = "botsave" THEN "savePostToLexicon"
                ELSE IF writeReqs[i].kind = "create" THEN "createPost" ELSE "editPost",
                IF writeReqs[i].answer = "ok" THEN "ok"
                ELSE SaveFailureOutcome(prog, writeReqs[i].answer),
                "")
    /\ UNCHANGED <<prog, othervars, viewvars, pendingSave, slugField, rvars, session, fetchedPostsCache, cursor,
                   isLoadingMore, allPostsLoaded, uniqueCategories, listReqs, nextUri>>

\* the write front end logged in with one post loaded that has no optional
\* field, the CLI logged in at its main menu (to save posts, to list them),
\* the bot with a post to bookmark
OInit ==
    /\ prog \in {"save", "clisave", "botsave", "manage"}
    /\ RIdle
    /\ ViewDefaults
    /\ session \in DIDs
    /\ fetchedPostsCache = IF prog = "save"
                           THEN <<Rec(InitialUris, PostValue(AbsentDate, Absent, Absent, <<>>))>>
                           ELSE <<>>
    /\ cursor = NoCursor
    /\ isLoadingMore = FALSE
    /\ allPostsLoaded = TRUE
    /\ uniqueCategories = {}
    /\ listReqs = <<>>
    /\ writeReqs = <<>>
    /\ nextUri = InitialUris + 1
    /\ ev = Ev("init", "", "")

ONext ==
    \/ prog = "save" /\ \E u \in 0..NumUris : \E f \in OptionalForms : \E ok \in BOOLEAN :
          HandleSavePostOptional(u, f, ok)
    \/ prog = "clisave" /\ \E f \in OptionalForms : \E ok \in BOOLEAN : CreatePost(f, ok)
    \/ prog = "clisave" /\ \E u \in 1..InitialUris : \E f \in OptionalForms : \E ok \in BOOLEAN :
          EditPost(u, f, ok)
    \/ prog = "botsave" /\ \E c \in {"a", " b& "} : \E a \in BOOLEAN : SavePostToLexicon(c, a)
    \/ \E i \in 1..MaxWriteReqs : \E a \in {"ok"} \cup Rejections : StoreAnswers(i, a)
    \/ \E i \in 1..MaxWriteReqs : HandleSavePostAnswered(i)
    \/ \E i \in 1..MaxWriteReqs : SaveAnswered(i)

\* ------------------------------------------- the post list of the CLI
\* the variables of the other scenarios, which managePosts leaves alone
manageKeeps == <<prog, currentViewDID, isLoading, localStorage, clock, resuming, pendingUri,
                 bookmarks, calls, viewvars, pendingSave, slugField, wvars, allRecords,
                 pagesFetched, wSlug, allFetchedPosts, rUniqueCategories>>

\* CLI managePosts up to the await of fetchRecordPage for the first page
ManagePosts ==
    /\ prog = "manage"
    /\ wPc # "awaiting"
    /\ currentCursor' = NoCursor
    /\ pageNumber' = 1
    /\ history' = <<>>
    /\ cursorOfNext' = NoCursor
    /\ records' = <<>>
    /\ wPc' = "awaiting"
    /\ wResult' = "none"
    /\ ev' = Ev("fetchRecordPage", "sent", "")
    /\ UNCHANGED manageKeeps

\* CLI fetchRecordPage: listRecords answers; the page and its cursor are
\* returned to managePosts, which prints 'No posts found' and returns when
\* page 1 has no record and otherwise lists the page and prompts
FetchRecordPageArrives(pageRecords, pageCursor) ==
    /\ prog = "manage"
    /\ wPc = "awaiting"
    /\ records' = pageRecords
    /\ cursorOfNext' = pageCursor
    /\ wPc' = "done"
    /\ wResult' = "returned"
    /\ ev' = EvPage("fetchRecordPage",
                    IF Len(pageRecords) = 0 /\ pageNumber = 1 THEN "noPosts" ELSE "listed",
                    Len(pageRecords))
    /\ UNCHANGED <<manageKeeps, currentCursor, pageNumber, history>>

\* CLI fetchRecordPage: listRecords throws, the catch returns
\* { records: [], cursor: undefined }
FetchRecordPageFails ==
    /\ prog = "manage"
    /\ wPc = "awaiting"
    /\ records' = <<>>
    /\ cursorOfNext' = NoCursor
    /\ wPc' = "done"
    /\ wResult' = "empty"
    /\ ev' = Ev("fetchRecordPage", "failed", "error")
    /\ UNCHANGED <<manageKeeps, currentCursor, pageNumber, history>>

\* managePosts has listed a page and prompts for a selection
Prompting ==
    /\ prog = "manage"
    /\ wPc = "done"
    /\ ~(Len(records) = 0 /\ pageNumber = 1)

\* the same with the cursor of the next page pushed on the history
ManagePostsNextPushesNext ==
    /\ Prompting
    /\ cursorOfNext # NoCursor
    /\ pageNumber < MaxPages
    /\ history' = Append(history, cursorOfNext)
    /\ currentCursor' = cursorOfNext
    /\ pageNumber' = pageNumber + 1
    /\ wPc' = "awaiting"
    /\ wResult' = "none"
    /\ ev' = Ev("managePosts", "sent", "next")
    /\ UNCHANGED <<manageKeeps, records, cursorOfNext>>

\* managePosts, selection 'next', which is offered on a page that came with
\* a cursor: the cursor of this page is pushed and the next page is asked for
ManagePostsNext ==
    /\ Prompting
    /\ cursorOfNext # NoCursor
    /\ pageNumber < MaxPages
    /\ history' = Append(history, currentCursor)
    /\ currentCursor' = cursorOfNext
    /\ pageNumber' = pageNumber + 1
    /\ wPc' = "awaiting"
    /\ wResult' = "none"
    /\ ev' = Ev("managePosts", "sent", "next")
    /\ UNCHANGED <<manageKeeps, records, cursorOfNext>>

\* managePosts, selection 'prev', which is offered when pageNumber > 1: the
\* last cursor is popped and that page is asked for again; with an empty
\* history the page shown is asked for again
ManagePostsPrev ==
    /\ Prompting
    /\ pageNumber > 1
    /\ IF Len(history) > 0
       THEN /\ currentCursor' = history[Len(history)]
            /\ history' = SubSeq(history, 1, Len(history) - 1)
            /\ pageNumber' = pageNumber - 1
            /\ ev' = Ev("managePosts", "sent", "prev")
       ELSE /\ ev' = Ev("managePosts", "sent", "alreadyFirst")
            /\ UNCHANGED <<currentCursor, history, pageNumber>>
    /\ wPc' = "awaiting"
    /\ wResult' = "none"
    /\ UNCHANGED <<manageKeeps, records, cursorOfNext>>

\* managePosts, a post of the page is selected and viewed, edited, deleted
\* or let go: the loop asks for the page shown again; 'back' returns to the
\* main menu
ManagePostsSelect(action) ==
    /\ Prompting
    /\ action # "back" => records # <<>>
    /\ wPc' = IF action = "back" THEN "idle" ELSE "awaiting"
    /\ wResult' = "none"
    /\ ev' = Ev("managePosts", IF action = "back" THEN "returned" ELSE "sent", action)
    /\ UNCHANGED <<manageKeeps, records, cursorOfNext, currentCursor, history, pageNumber>>

MNext ==
    \/ ManagePosts
    \/ prog = "manage" /\ \E p \in WalkPages : \E c \in WalkCursorOpt : FetchRecordPageArrives(p, c)
    \/ FetchRecordPageFails
    \/ ManagePostsNext
    \/ ManagePostsPrev
    \/ \E action \in {"view", "edit", "delete", "cancel_action", "back"} : ManagePostsSelect(action)

\* ------------------------------------- read front end: changing the author
\* the repository a record is listed from: listRecords?repo=did
RepoOf(u) == IF u % 2 = 1 THEN "did:a" ELSE "did:b"

\* the read front end as main.js is loaded ("nav"), the write front end
\* logged in with every record of the store in its list ("filter"), and the
\* write front end before a page load, localStorage empty or holding the
\* data of a version that stored no initialLoginAt ("resume"), and the bot
\* with an empty bookmark collection and no pending uri ("webhook")
NInit ==
    /\ prog \in {"nav", "filter", "resume", "webhook"}
    /\ RIdle
    /\ ViewDefaults
    /\ session = IF prog = "filter" THEN "did:a" ELSE NoSession
    /\ fetchedPostsCache = IF prog = "filter"
                           THEN [ u \in 1..NumUris |-> Rec(u, StoredValue(u)) ]
                           ELSE <<>>
    /\ cursor = NoCursor
    /\ isLoadingMore = FALSE
    /\ allPostsLoaded = (prog = "filter")
    /\ uniqueCategories = updateUniqueCategories({}, fetchedPostsCache)
    /\ listReqs = <<>>
    /\ writeReqs = <<>>
    /\ nextUri = NumUris + 1
    /\ ev = Ev("init", "", "")

\* displayPostList(did) up to the await in fetchAllRecordsForUser: the author
\* in view is set, the shared category Set is cleared and the first
\* listRecords call of the walk goes out.  The entry of listReqs holds the
\* walk's own did, allRecords and pagesFetched
DisplayPostList(did) ==
    /\ currentViewDID' = did
    /\ rUniqueCategories' = {}
    /\ listReqs' = Append(listReqs, [did |-> did, cursor |-> NoCursor,
                                     allRecords |-> <<>>, pagesFetched |-> 1])

\* handleRouteChange (popstate or page load) on the url of an author's list,
\* or on the url of the search view when did is null
HandleRouteChangeTo(did) ==
    /\ prog = "nav"
    /\ allFetchedPosts' = <<>>
    /\ IF did = "null"
       THEN /\ currentViewDID' = "null"
            /\ rUniqueCategories' = {}
            /\ isLoading' = FALSE
            /\ ev' = Ev("handleRouteChange", "search", "")
            /\ UNCHANGED listReqs
       ELSE /\ Len(listReqs) < MaxListReqs
            /\ isLoading' = TRUE
            /\ DisplayPostList(did)
            /\ ev' = Ev("handleRouteChange", "sent", "")
    /\ UNCHANGED <<prog, localStorage, clock, resuming, pendingUri, bookmarks, calls, pageNumber, history, cursorOfNext, viewvars, pendingSave, slugField, session, fetchedPostsCache, cursor,
                   isLoadingMore, allPostsLoaded, uniqueCategories, writeReqs, nextUri,
                   wPc, allRecords, pagesFetched, currentCursor, wResult, wSlug, records>>

\* handleSearchSubmit in the search view with a DID as the query
HandleSearchSubmit(did) ==
    /\ prog = "nav"
    /\ currentViewDID = "null"
    /\ IF isLoading
       THEN /\ ev' = Ev("handleSearchSubmit", "ignored", "")
            /\ UNCHANGED <<currentViewDID, isLoading, rUniqueCategories, listReqs>>
       ELSE /\ Len(listReqs) < MaxListReqs
            /\ isLoading' = TRUE
            /\ DisplayPostList(did)
            /\ ev' = Ev("handleSearchSubmit", "sent", "")
    /\ UNCHANGED <<prog, localStorage, clock, resuming, pendingUri, bookmarks, calls, pageNumber, history, cursorOfNext, viewvars, pendingSave, slugField, session, fetchedPostsCache, cursor,
                   isLoadingMore, allPostsLoaded, uniqueCategories, writeReqs, nextUri,
                   wPc, allRecords, pagesFetched, currentCursor, wResult, wSlug, records,
                   allFetchedPosts>>

\* a page of walk i arrives: the loop body of fetchAllRecordsForUser after
\* its await, then the next call or the return into displayPostList, which
\* assigns allFetchedPosts and renders the controls and the list
DisplayPostListPage(i, batchRecords, nextCursor) ==
    /\ prog = "nav"
    /\ i \in DOMAIN listReqs
    /\ \A k \in DOMAIN batchRecords : RepoOf(batchRecords[k].uri) = listReqs[i].did
    /\ rUniqueCategories' = IF Len(batchRecords) > 0
                            THEN rUniqueCategories \cup PageCategories(batchRecords)
                            ELSE rUniqueCategories
    /\ IF WalkEnds(batchRecords, nextCursor, listReqs[i].pagesFetched)
       THEN /\ listReqs' = RemoveAt(listReqs, i)
            /\ allFetchedPosts' = listReqs[i].allRecords \o batchRecords
            /\ ev' = Ev("displayPostList", "rendered", "list")
       ELSE /\ listReqs' = [listReqs EXCEPT ![i] =
                               [did |-> @.did, cursor |-> nextCursor,
                                allRecords |-> @.allRecords \o batchRecords,
                                pagesFetched |-> @.pagesFetched + 1]]
            /\ ev' = EvPage("displayPostList", "page", Len(batchRecords))
            /\ UNCHANGED allFetchedPosts
    /\ UNCHANGED <<prog, viewvars, othervars, pendingSave, slugField, session, fetchedPostsCache, cursor,
                   isLoadingMore, allPostsLoaded, uniqueCategories, writeReqs, nextUri,
                   wPc, allRecords, pagesFetched, currentCursor, wResult, wSlug, records>>

\* a listRecords call of walk i fails: fetchAllRecordsForUser returns [] for
\* a 'not found' message and displayPostList renders the empty list, or it
\* throws on and displayPostList renders the error
DisplayPostListFails(i, httpStatus, serverMessage) ==
    LET errorMsg == fetchRecordsErrorMsg(httpStatus, serverMessage)
        notFound == \E k \in DOMAIN errorMsg :
                        errorMsg[k] \in {"Could not list records", "Status 400"}
    IN  /\ prog = "nav"
        /\ i \in DOMAIN listReqs
        /\ listReqs' = RemoveAt(listReqs, i)
        /\ IF notFound
           THEN /\ allFetchedPosts' = <<>>
                /\ ev' = Ev("displayPostList", "rendered", "list")
           ELSE /\ ev' = Ev("displayPostList", "failed", "error")
                /\ UNCHANGED allFetchedPosts
        /\ UNCHANGED <<prog, viewvars, othervars, pendingSave, slugField, session, fetchedPostsCache, cursor,
                       isLoadingMore, allPostsLoaded, uniqueCategories, writeReqs, nextUri,
                       wPc, allRecords, pagesFetched, currentCursor, wResult, wSlug, records,
                       rUniqueCategories>>

\* --------------------------------------- write front end: stored session
\* localStorage without the key, and a stored object without a field, read
\* as a record: no session, no (or a zero) initialLoginAt
NothingStored == [session |-> "null", initialLoginAt |-> 0]

\* the same with the timestamp renewed whenever a session is stored
saveSessionToLocalRenews(sessionData, isInitialLogin, existingInitialLoginAt) ==
    [session |-> sessionData, initialLoginAt |-> clock]

\* saveSessionToLocal: the data written to localStorage
saveSessionToLocal(sessionData, isInitialLogin, existingInitialLoginAt) ==
    [session |-> sessionData,
     initialLoginAt |-> IF isInitialLogin \/ existingInitialLoginAt = 0
                        THEN clock ELSE existingInitialLoginAt]

\* time passes
Tick ==
    /\ prog = "resume"
    /\ clock < MaxClock
    /\ clock' = clock + 1
    /\ UNCHANGED <<prog, currentViewDID, isLoading, localStorage, resuming, pendingUri, bookmarks, calls, pageNumber, history, cursorOfNext, viewvars, pendingSave,
                   slugField, rvars, wvars, ev>>

\* handleLogin with performLogin accepted: the session is set and stored
\* with the time of the login
HandleLoginStores(did) ==
    /\ prog = "resume"
    /\ session = NoSession
    /\ resuming = NothingStored
    /\ session' = did
    /\ localStorage' = saveSessionToLocal(did, TRUE, 0)
    /\ ev' = Ev("handleLogin", "loggedIn", "")
    /\ UNCHANGED <<prog, currentViewDID, isLoading, clock, resuming, pendingUri, bookmarks, calls, pageNumber, history, cursorOfNext, viewvars, pendingSave,
                   slugField, rvars, fetchedPostsCache, cursor, isLoadingMore, allPostsLoaded,
                   uniqueCategories, listReqs, writeReqs, nextUri>>

\* the page is loaded anew and initializeApp calls attemptResumeSession, up
\* to its await of api.resumeSession or to its early return
AttemptResumeSession ==
    /\ prog = "resume"
    /\ resuming = NothingStored
    /\ session' = NoSession
    /\ IF localStorage.session = "null"
       THEN /\ ev' = Ev("attemptResumeSession", "nothingStored", "")
            /\ UNCHANGED <<localStorage, resuming>>
       ELSE IF localStorage.initialLoginAt = 0
       THEN /\ localStorage' = NothingStored
            /\ ev' = Ev("attemptResumeSession", "noTimestamp", "warning")
            /\ UNCHANGED resuming
       ELSE IF clock - localStorage.initialLoginAt > SESSION_MAX_AGE
       THEN /\ localStorage' = NothingStored
            /\ ev' = Ev("attemptResumeSession", "expired", "warning")
            /\ UNCHANGED resuming
       ELSE /\ resuming' = localStorage
            /\ ev' = Ev("attemptResumeSession", "sent", "")
            /\ UNCHANGED localStorage
    /\ UNCHANGED <<prog, currentViewDID, isLoading, clock, pendingUri, bookmarks, calls, pageNumber, history, cursorOfNext, viewvars, pendingSave,
                   slugField, rvars, fetchedPostsCache, cursor, isLoadingMore, allPostsLoaded,
                   uniqueCategories, listReqs, writeReqs, nextUri>>

\* attemptResumeSession after its await: api.resumeSession returned the
\* session, which is set and stored with the old initialLoginAt, or it threw
\* and the stored data is cleared
ResumeSessionAnswered(ok) ==
    /\ prog = "resume"
    /\ resuming # NothingStored
    /\ resuming' = NothingStored
    /\ IF ok
       THEN /\ session' = resuming.session
            /\ localStorage' = saveSessionToLocal(resuming.session, FALSE, resuming.initialLoginAt)
            /\ ev' = Ev("attemptResumeSession", "resumed", "")
       ELSE /\ session' = NoSession
            /\ localStorage' = NothingStored
            /\ ev' = Ev("attemptResumeSession", "failed", "error")
    /\ UNCHANGED <<prog, currentViewDID, isLoading, clock, pendingUri, bookmarks, calls, pageNumber, history, cursorOfNext, viewvars, pendingSave,
                   slugField, rvars, fetchedPostsCache, cursor, isLoadingMore, allPostsLoaded,
                   uniqueCategories, listReqs, writeReqs, nextUri>>

\* ------------------------------------------------ bot: webhook updates
\* env.AUTHORIZED_CHAT_ID, parsed
AUTHORIZED_CHAT_ID == 1

\* the same with every chat let through
AuthorizedAnyChat(chatId) == TRUE

\* the authorization check of the webhook handler
Authorized(chatId) == chatId = AUTHORIZED_CHAT_ID

\* the post a message text links to: bskyLinkRegex and convertToAtUri; 0 when
\* the text holds no link
LinkOf(messageText) ==
    IF messageText = "at://1" THEN 1 ELSE IF messageText = "at://2" THEN 2 ELSE 0

\* the webhook handler for one update with a message text, from the
\* authorization check to its response.  sessionOk: getBlueskySession
\* returns a session; listOk: the listRecords calls of listAllRecords are
\* answered; createOk: createRecord is accepted
WebhookFetch(chatId, messageText, sessionOk, listOk, createOk) ==
    LET reply(result, made) ==
            /\ ev' = EvUri("fetch", result, "", chatId)
            /\ calls' = made
        isDuplicate(u) == sessionOk /\ listOk /\ bookmarks[u] > 0
    IN  /\ prog = "webhook"
        /\ IF ~Authorized(chatId)
           THEN /\ ev' = EvUri("fetch", "unauthorized", "warning", chatId)
                /\ calls' = {}
                /\ UNCHANGED <<pendingUri, bookmarks>>
           ELSE IF Trim(messageText) = "/start"
           THEN /\ reply("start", {"session", "kvDelete"})
                /\ pendingUri' = 0
                /\ UNCHANGED bookmarks
           ELSE IF pendingUri # 0
           THEN IF Trim(messageText) = ""
                THEN /\ reply("emptyCategory", {"kvGet"})
                     /\ UNCHANGED <<pendingUri, bookmarks>>
                ELSE /\ pendingUri' = 0
                     /\ IF ~sessionOk
                        THEN /\ reply("saveFailed", {"kvGet", "kvDelete", "session"})
                             /\ UNCHANGED bookmarks
                        ELSE IF createOk
                        THEN /\ bookmarks[pendingUri] < MaxCopies
                             /\ reply("saved", {"kvGet", "kvDelete", "session", "createRecord"})
                             /\ bookmarks' = [bookmarks EXCEPT ![pendingUri] = @ + 1]
                        ELSE /\ reply("saveFailed", {"kvGet", "kvDelete", "session", "createRecord"})
                             /\ UNCHANGED bookmarks
           ELSE IF LinkOf(messageText) = 0
           THEN /\ reply("help", {"kvGet"})
                /\ UNCHANGED <<pendingUri, bookmarks>>
           ELSE IF ~sessionOk
           THEN /\ reply("noConnection", {"kvGet", "session"})
                /\ UNCHANGED <<pendingUri, bookmarks>>
           ELSE IF isDuplicate(LinkOf(messageText))
           THEN /\ reply("duplicate", {"kvGet", "session", "list"})
                /\ UNCHANGED <<pendingUri, bookmarks>>
           ELSE /\ reply("awaitingCategory", {"kvGet", "session", "list", "kvPut"})
                /\ pendingUri' = LinkOf(messageText)
                /\ UNCHANGED bookmarks
        /\ UNCHANGED <<prog, currentViewDID, isLoading, localStorage, clock, resuming, pageNumber,
                       history, cursorOfNext, viewvars, pendingSave, slugField, rvars, wvars>>

\* the change listener of the category selector: the value is one of the
\* options populateCategoryFilter has put there
CategoryFilterChanged(category) ==
    /\ prog = "filter"
    /\ filterCategory' = category
    /\ ev' = Ev("handleFilterChange", "", "")
    /\ UNCHANGED <<prog, othervars, searchTerm, sortOrder, pendingSave, slugField, rvars, wvars>>

NNext ==
    \/ \E chatId \in {1, 2} : \E messageText \in {"/start", " ", "x", "at://1", "at://2"} :
          \E sessionOk, listOk, createOk \in BOOLEAN :
             WebhookFetch(chatId, messageText, sessionOk, listOk, createOk)
    \/ Tick
    \/ \E did \in {"did:a"} : HandleLoginStores(did)
    \/ AttemptResumeSession
    \/ \E ok \in BOOLEAN : ResumeSessionAnswered(ok)
    \/ \E category \in getUniqueCategories \cup {""} : CategoryFilterChanged(category)
    \/ \E did \in {"did:a", "did:b", "null"} : HandleRouteChangeTo(did)
    \/ \E did \in {"did:a", "did:b"} : HandleSearchSubmit(did)
    \/ prog = "nav" /\ \E i \in 1..MaxListReqs : \E c \in CursorOpt :
          \E p \in SeqsUpTo({ Rec(u, StoredValue(u)) : u \in 1..NumUris }, 1) :
             DisplayPostListPage(i, p, c)
    \/ prog = "nav" /\ \E i \in 1..MaxListReqs : \E st \in {400, 500} :
          DisplayPostListFails(i, st, "Internal Server Error")

Init == WInit \/ RInit \/ FInit \/ VInit \/ OInit \/ NInit
Next == WNext \/ RNext \/ FNext \/ VNext \/ LNext \/ ONext \/ MNext \/ NNext
Spec == Init /\ [][Next]_vars

\* the fetch-all walks alone; every await of a walk is answered in the end
WalkSpec == RInit /\ [][RNext]_vars /\ WF_vars(RNext)

\* the walks of the write front end, the read front end, the CLI and the bot
\* against a store that lists its records page by page
StoreSpec == SInit /\ [][SNext]_vars

\* ------------------------------------------------------------ properties
FetchAllOps == {"fetchAllRecordsForUser", "fetchAllRecords", "listAllRecords"}
WriteOps == {"handleSavePost", "handleDeletePost"}

\* C1: every uri occurs at most once in the cache of the write front end
C1_UriAtMostOnce ==
    \A i, j \in DOMAIN fetchedPostsCache :
        i # j => fetchedPostsCache[i].uri # fetchedPostsCache[j].uri

\* C2: at most one list-page request of the write front end is outstanding
C2_OneListRequest == Len(listReqs) <= 1

\* C3: handleLoadMore invoked while isLoadingMore is true sends nothing and
\* leaves cache, cursor, categories, allPostsLoaded and isLoadingMore as they were
C3_LoadMoreWhileLoading ==
    [][ (ev'.op = "handleLoadMore" /\ isLoadingMore)
          => (ev'.result = "ignored" /\ UNCHANGED wvars) ]_vars

C3_Witness ==
    /\ ev.op = "handleLoadMore"
    /\ ev.result = "ignored"
    /\ isLoadingMore
    /\ ~allPostsLoaded
    /\ Len(listReqs) = 1

\* C4: no step of a create, update or delete that fails changes the cache,
\* the cursor, allPostsLoaded or the category set; the failure is shown as an
\* error, and nothing the handlers test (session, loading flag) has changed,
\* so the operation can be issued again
C4_FailedWriteChangesNothing ==
    [][ /\ (ev'.op \in WriteOps /\ ev'.result \in {"sent", "failed"})
            => /\ UNCHANGED <<fetchedPostsCache, cursor, allPostsLoaded, uniqueCategories>>
               /\ getUniqueCategories' = getUniqueCategories
        /\ (ev'.op \in WriteOps /\ ev'.result = "failed")
            => /\ ev'.shown = "error"
               /\ UNCHANGED <<session, isLoadingMore, listReqs>>
               /\ Len(writeReqs') < MaxWriteReqs ]_vars

C4_Witness ==
    /\ ev.op \in WriteOps
    /\ ev.result = "failed"
    /\ fetchedPostsCache # <<>>
    /\ allPostsLoaded
    /\ uniqueCategories # {}

\* C5: a failed list-page request keeps the cache, the cursor, the category
\* set and allPostsLoaded, shows the error and sets isLoadingMore to false
C5_FailedPageKeepsCache ==
    [][ (ev'.op = "fetchAndAppendPosts" /\ ev'.result = "failed")
          => /\ UNCHANGED <<fetchedPostsCache, cursor, allPostsLoaded, uniqueCategories>>
             /\ ev'.shown = "error"
             /\ ~isLoadingMore' ]_vars

C5_Witness ==
    /\ ev.op = "fetchAndAppendPosts"
    /\ ev.result = "failed"
    /\ Len(fetchedPostsCache) = PageSize
    /\ cursor # NoCursor
    /\ ~allPostsLoaded
    /\ ~isLoadingMore
    /\ listReqs = <<>>

\* C6: after a fetch-all walk has failed, nothing of its earlier pages is left
\* with the caller: no records and no category labels
C6_FailedWalkLeavesNothing ==
    (ev.op \in FetchAllOps /\ ev.result = "failed")
        => (allFetchedPosts = <<>> /\ records = <<>> /\ rUniqueCategories = {})

\* C7: a page without cursor ends the walk, full page or not: a fetch-all walk
\* is done and calls again only when a new walk starts; in the incremental
\* mode allPostsLoaded is true after the page and load-more sends nothing
\* while it is
C7_NoCursorEndsWalk ==
    [][ /\ (ev'.op \in FetchAllOps /\ ev'.result = "page" /\ currentCursor' = NoCursor)
            => wPc' = "done"
        /\ (wPc = "done" /\ wPc' = "awaiting") => ev'.result = "sent"
        /\ (ev'.op = "fetchAndAppendPosts" /\ ev'.result = "page" /\ cursor' = NoCursor)
            => allPostsLoaded'
        /\ (ev'.op = "handleLoadMore" /\ allPostsLoaded) => UNCHANGED listReqs ]_vars

C7_Witness ==
    /\ ev.op = "fetchAndAppendPosts"
    /\ ev.result = "page"
    /\ ev.n = PageSize
    /\ cursor = NoCursor
    /\ allPostsLoaded

C9_EmptyPageEndsNoWalk ==
    [][ /\ (ev'.op = "fetchAllRecordsForUser" /\ ev'.result = "page" /\ ev'.n = 0
              /\ currentCursor' # NoCursor)
            => wPc' = "awaiting"
        /\ (ev'.op = "fetchAndAppendPosts" /\ ev'.result = "page" /\ ev'.n = 0
              /\ cursor' # NoCursor)
            => ~allPostsLoaded' ]_vars

\* C9 amended: an empty page with a cursor does not end a fetch-all walk: the
\* next page is asked for with that cursor and nothing is returned yet
\* (fetchAllRecordsForUser: unless its page budget is used up); in the
\* incremental mode such a page is a short page and sets allPostsLoaded
C9_EmptyPageEndsOnlyLoadMore ==
    [][ /\ (ev'.op \in FetchAllOps /\ ev'.result = "page" /\ ev'.n = 0
              /\ currentCursor' # NoCursor /\ (prog = "read" => pagesFetched < MaxPages))
            => /\ wPc' = "awaiting"
               /\ wResult' = "none"
               /\ UNCHANGED <<allRecords, allFetchedPosts, records>>
        /\ (ev'.op = "fetchAndAppendPosts" /\ ev'.result = "page" /\ ev'.n = 0
              /\ cursor' # NoCursor)
            => allPostsLoaded' ]_vars

C9_Witness ==
    /\ ev.op = "fetchAllRecordsForUser"
    /\ ev.result = "page"
    /\ ev.n = 0
    /\ currentCursor # NoCursor
    /\ wPc = "awaiting"
    /\ pagesFetched = 2

\* C10: every fetch-all walk ends: fetchAllRecordsForUser and findRecordBySlug
\* within their page budgets, the CLI's and the bot's walk as well
C10_EveryWalkEnds ==
    /\ [](prog = "read" => pagesFetched <= MaxPages)
    /\ [](prog = "find" => pagesFetched <= MaxPagesToCheck)
    /\ ((wPc = "awaiting") ~> (wPc = "done"))

\* C11: against a store that lists its N records newest first in pages of the
\* asked size, with a cursor on every page but the last, a walk that returns
\* returns exactly the N records, each once and in the store's order, and has
\* ended on the page without cursor, as long as the pages fit the page budget
\* (fetchAllRecordsForUser); in the write front end allPostsLoaded means the
\* cache holds exactly these records in that order
C11_WalkReturnsStore ==
    /\ (prog = "read" /\ wResult = "returned" /\ StorePageCount(ListLimit) <= MaxPages)
          => (allFetchedPosts = StoreRecords /\ wPc = "done" /\ currentCursor = NoCursor)
    /\ (prog \in {"cli", "bot"} /\ wResult = "returned")
          => (records = StoreRecords /\ wPc = "done" /\ currentCursor = NoCursor)
    /\ (prog = "write" /\ allPostsLoaded)
          => (fetchedPostsCache = StoreRecords /\ cursor = NoCursor)

\* scenario A: a full page with a cursor, then a shorter page without
C11_Witness ==
    /\ prog = "read"
    /\ wResult = "returned"
    /\ pagesFetched = 2
    /\ Len(allFetchedPosts) = ListLimit + 1
    /\ allFetchedPosts = StoreRecords

Answered(kind) ==
    { i \in DOMAIN writeReqs : writeReqs[i].kind = kind /\ writeReqs' = RemoveAt(writeReqs, i) }

\* C13: after a successful update of a record whose uri is in the cache the
\* cache has the same length and the same uris at the same positions, and
\* only the entries with that uri have changed: they hold the new record.
C13_UpdateReplacesInPlace ==
    [][\A i \in Answered("update") :
          (ev'.result = "updated" /\ writeReqs[i].uri \in Uris(fetchedPostsCache)) =>
             /\ Len(fetchedPostsCache') = Len(fetchedPostsCache)
             /\ \A k \in DOMAIN fetchedPostsCache :
                   /\ fetchedPostsCache'[k].uri = fetchedPostsCache[k].uri
                   /\ fetchedPostsCache'[k] =
                         IF fetchedPostsCache[k].uri = writeReqs[i].uri
                         THEN Rec(writeReqs[i].uri, writeReqs[i].value)
                         ELSE fetchedPostsCache[k]
      ]_vars

\* an update has just succeeded on the second of two cached records, a
\* record of the store's first page that now holds what the form built
C13_Witness ==
    /\ ev.op = "handleSavePost"
    /\ ev.result = "updated"
    /\ Len(fetchedPostsCache) = 2
    /\ fetchedPostsCache[1].uri # fetchedPostsCache[2].uri
    /\ fetchedPostsCache[2].uri <= InitialUris
    /\ fetchedPostsCache[2].value.category = "b&"

\* C14: after a successful update of a record whose uri is not in the cache
\* when the update completes, the cache contains the updated record.
C14_UpdateOfAbsentInserts ==
    [][\A i \in Answered("update") :
          (ev'.result = "updated" /\ writeReqs[i].uri \notin Uris(fetchedPostsCache)) =>
             \E k \in DOMAIN fetchedPostsCache' :
                fetchedPostsCache'[k] = Rec(writeReqs[i].uri, writeReqs[i].value)
      ]_vars

\* C15: after a successful delete of uri U the cache holds no entry with uri
\* U, the other entries are all there in the order they had, and the handler
\* reports success.
C15_DeleteRemovesUri ==
    [][\A i \in Answered("delete") :
          ev'.result = "deleted" =>
             /\ \A k \in DOMAIN fetchedPostsCache' : fetchedPostsCache'[k].uri # writeReqs[i].uri
             /\ fetchedPostsCache' =
                   SelectSeq(fetchedPostsCache, LAMBDA p : p.uri # writeReqs[i].uri)
             /\ ev'.op = "handleDeletePost"
             /\ ev'.n = writeReqs[i].uri
      ]_vars

\* a record created by this client has just been deleted, another record is
\* still listed and no page request is under way
C15_Witness ==
    /\ ev.op = "handleDeletePost"
    /\ ev.result = "deleted"
    /\ ev.n > InitialUris
    /\ ev.n \notin Uris(fetchedPostsCache)
    /\ fetchedPostsCache # <<>>
    /\ listReqs = <<>>

\* C16 as stated: after a successful create no list-page request is issued,
\* the created record is in the cache, and it is the first element of the
\* projection with sort order 'newest' and no search or category filter.
C16_CreatedIsFirstShown ==
    [][\A i \in Answered("create") :
          ev'.result = "created" =>
             /\ listReqs' = listReqs
             /\ \E k \in DOMAIN fetchedPostsCache' :
                   fetchedPostsCache'[k] = Rec(writeReqs[i].served, writeReqs[i].value)
             /\ Head(getFilteredAndSortedPosts(fetchedPostsCache', "", "", "newest"))
                   = Rec(writeReqs[i].served, writeReqs[i].value)
      ]_vars

\* the cached records published later than the time t
PublishedLater(cache, t) ==
    { k \in DOMAIN cache : /\ IsValidDate(cache[k].value.publishedAt)
                           /\ TimeOf(cache[k].value.publishedAt) > t }

\* C16, amended: after a successful create no list-page request is issued,
\* the created record is the first element of the cache, and in the
\* projection with sort order 'newest' and no search or category filter it
\* comes right after the records whose publishedAt is later than its own,
\* and so is first when there is none.
C16_CreatedIsFirstOfItsDate ==
    [][\A i \in Answered("create") :
          ev'.result = "created" =>
             /\ listReqs' = listReqs
             /\ Head(fetchedPostsCache') = Rec(writeReqs[i].served, writeReqs[i].value)
             /\ getFilteredAndSortedPosts(fetchedPostsCache', "", "", "newest")
                   [Cardinality(PublishedLater(fetchedPostsCache, writeReqs[i].value.publishedAt)) + 1]
                   = Rec(writeReqs[i].served, writeReqs[i].value)
      ]_vars

\* a create has just succeeded and the new record, first in the cache, is
\* shown second because the record listed before was published later
C16_Witness ==
    /\ ev.op = "handleSavePost"
    /\ ev.result = "created"
    /\ Len(fetchedPostsCache) = 2
    /\ fetchedPostsCache[1].uri > InitialUris
    /\ fetchedPostsCache[2].uri <= InitialUris
    /\ postsToDisplay = <<fetchedPostsCache[2], fetchedPostsCache[1]>>

\* C17: right after handleLogout the cache is empty, the cursor is absent,
\* allPostsLoaded and isLoadingMore are false, no category is listed and the
\* search term, category filter and sort order are back at '', '' and
\* 'newest', whatever the state was before.
C17_LogoutResetsEverything ==
    ev.op = "handleLogout" =>
       /\ session = NoSession
       /\ fetchedPostsCache = <<>>
       /\ cursor = NoCursor
       /\ ~allPostsLoaded
       /\ ~isLoadingMore
       /\ uniqueCategories = {}
       /\ getUniqueCategories = {}
       /\ searchTerm = ""
       /\ filterCategory = ""
       /\ sortOrder = "newest"
       /\ postsToDisplay = <<>>

\* a logout from the list view while a page request was under way: its
\* request is still unanswered
C17_Witness ==
    /\ prog = "view"
    /\ ev.op = "handleLogout"
    /\ listReqs # <<>>
    /\ session = NoSession
    /\ fetchedPostsCache = <<>>

\* C18: no create or update request on its way to the store carries a slug
\* that does not match the slug pattern, an empty title (or other required
\* text field), an empty category or a publishedAt that does not parse.
C18_OnlyValidRecordsSent ==
    \A i \in DOMAIN writeReqs :
       writeReqs[i].kind \in {"create", "update"} =>
          /\ ValidSlug(writeReqs[i].value.slug)
          /\ writeReqs[i].value.title # ""
          /\ writeReqs[i].value.category # ""
          /\ IsValidDate(writeReqs[i].value.publishedAt)
          /\ writeReqs[i].value.publishedAt # NoDate

\* C19: while no session is set, a step of handleLoadMore, handleSavePost or
\* handleDeletePost sends no list, create, update or delete request and sets
\* no session; and no list request was ever sent without a session.
C19_NoRequestWithoutSession ==
    [][(/\ session = NoSession
        /\ ev'.op \in {"handleLoadMore", "fetchAndAppendPosts", "handleSavePost", "handleDeletePost"})
          => /\ ev'.result # "sent"
             /\ Len(listReqs') <= Len(listReqs)
             /\ Len(writeReqs') <= Len(writeReqs)
             /\ session' = NoSession
             /\ ev'.result = "notLoggedIn" => ev'.shown = "error"
             /\ \A i \in DOMAIN listReqs' : listReqs'[i].did # NoSession
      ]_vars

\* a save whose comment URL was being resolved when the user logged out has
\* been refused with 'Not logged in' and nothing was sent
C19_Witness ==
    /\ prog = "form"
    /\ session = NoSession
    /\ ev.op = "handleSavePost"
    /\ ev.result = "notLoggedIn"
    /\ ev.shown = "error"
    /\ writeReqs = <<>>

\* a record with a publishedAt that is there and parses
Dated(post) == post.value.publishedAt \notin {NoDate, BadDate}

\* a list in which every record without a valid publishedAt comes after every
\* record with one, and those with one are in the order asked for
UndatedLastAndOrdered(out, order) ==
    \A i, j \in DOMAIN out :
       i < j =>
          /\ Dated(out[j]) => Dated(out[i])
          /\ (Dated(out[i]) /\ Dated(out[j])) =>
                IF order = "oldest"
                THEN out[i].value.publishedAt <= out[j].value.publishedAt
                ELSE out[i].value.publishedAt >= out[j].value.publishedAt

\* C20: in the list either front end shows, for both sort orders, every
\* record whose publishedAt is missing or unparseable comes after every
\* record with a valid one, and the valid ones are ordered descending for
\* 'newest' and ascending for 'oldest'.
C20_UndatedSortLast ==
    /\ UndatedLastAndOrdered(postsToDisplay, sortOrder)
    /\ prog = "view" =>
          \A out \in RendererSortOutcomes(fetchedPostsCache, sortOrder) :
             UndatedLastAndOrdered(out, sortOrder)

\* the records of a list
Range(seq) == { seq[i] : i \in DOMAIN seq }

\* the records the category filter is to keep, for a front end whose
\* Recommended entry has the value sentinel
KeptByCategory(posts, category, sentinel) ==
    IF category = "" THEN Range(posts)
    ELSE IF category = sentinel THEN { p \in Range(posts) : p.value.recommended = TRUE }
    ELSE { p \in Range(posts) : p.value.category = category }

\* C21: with an empty search term the list either front end shows holds
\* exactly: every record when the category filter is empty, the records with
\* recommended = true when the filter is that front end's Recommended
\* sentinel, and otherwise the records whose category is the filter string,
\* compared exactly and case-sensitively.
C21_CategoryFilterExact ==
    (prog = "view" /\ searchTerm = "") =>
       /\ Range(postsToDisplay) = KeptByCategory(fetchedPostsCache, filterCategory, "Recommended")
       /\ \A out \in applyFiltersSortAndRenderList(fetchedPostsCache, searchTerm,
                                                   filterCategory, sortOrder) :
             Range(out) = KeptByCategory(fetchedPostsCache, filterCategory, "recommended")

\* the records in which the lower-cased term is a substring of the lower-cased
\* title, slug or category (title stands for the text fields)
MatchedBySearch(posts, term) ==
    { p \in Range(posts) :
         \/ Includes(LowerStr(p.value.title), LowerStr(term))
         \/ SlugIncludes(p.value.slug, LowerStr(term))
         \/ Includes(LowerStr(p.value.category), LowerStr(term)) }

\* C22: with a non-empty search term (and no category filter) the list
\* either front end shows keeps a record if and only if the lower-cased term
\* is a substring of its lower-cased title, slug or category.
C22_SearchMatchesAllFields ==
    (prog = "view" /\ searchTerm # "" /\ filterCategory = "") =>
       /\ Range(postsToDisplay) = MatchedBySearch(fetchedPostsCache, searchTerm)
       /\ \A out \in applyFiltersSortAndRenderList(fetchedPostsCache, searchTerm,
                                                   filterCategory, sortOrder) :
             Range(out) = MatchedBySearch(fetchedPostsCache, searchTerm)

\* C23: sanitizeSlug is idempotent in each mode: whatever the slug field
\* holds, sanitizing the sanitized value again, in the same mode, gives the
\* sanitized value.
C23_SanitizeSlugIdempotent ==
    prog = "slug" =>
       \A final \in BOOLEAN :
          sanitizeSlug(sanitizeSlug(slugField, final), final) = sanitizeSlug(slugField, final)

\* the field holds a stored slug that both modes change, each in its way
C23_Witness ==
    /\ prog = "slug"
    /\ ev.op = "populateForm"
    /\ slugField = <<"-", "!", "-">>
    /\ sanitizeSlug(slugField, FALSE) = <<"-">>
    /\ sanitizeSlug(slugField, TRUE) = <<>>

\* C26 as stated: within one session (no handleLogout and no reset of
\* loadInitialData in between) no label returned by getUniqueCategories,
\* "Recommended" included, is missing from what it returns after a later
\* step.
C26_NoLabelLost ==
    [][ev'.op \notin {"handleLogout", "loadInitialData"}
          => getUniqueCategories \subseteq getUniqueCategories']_vars

\* C26: within one session every label other than "Recommended" that
\* getUniqueCategories returns is still returned after every later page
\* append, create, update and delete.
C26_ActualCategoriesKept ==
    [][ev'.op \notin {"handleLogout", "loadInitialData"} =>
          (getUniqueCategories \ {"Recommended"}) \subseteq getUniqueCategories']_vars

\* the only cached record was deleted and its category is still listed
C26_Witness ==
    /\ prog = "write"
    /\ ev.op = "handleDeletePost"
    /\ ev.result = "deleted"
    /\ fetchedPostsCache = <<>>
    /\ "a" \in getUniqueCategories

\* C29: after a list-page request has failed, the operation that made it has
\* ended by raising an error to its caller; it has not returned an empty
\* list, an empty page or the 'not found' result.
C29_FailedPageIsAnError ==
    (ev.op \in FetchAllOps \cup {"findRecordBySlug", "fetchRecordPage"} /\ ev.result = "failed")
        => wResult = "thrown"

\* C24: a create request on its way to the store carries no updatedAt; an
\* update request carries one, the time the user supplied when there is
\* one and the current time when the field was empty or cleared.
C24_UpdatedAtOnlyOnUpdate ==
    prog \in {"save", "clisave"} =>
       \A i \in DOMAIN writeReqs :
          LET req == writeReqs[i]
              supplied == IF prog = "save" THEN parseDateTimeLocalString(req.form.updatedAt)
                          ELSE cliParseCustomDateString(req.form.updatedAt)
          IN /\ req.kind = "create" => req.value.updatedAt = AbsentDate
             /\ req.kind = "update" =>
                   /\ req.value.updatedAt \notin {AbsentDate, NoDate}
                   /\ supplied # NoDate => req.value.updatedAt = supplied
                   /\ req.form.updatedAt = NoDate => req.value.updatedAt = Now

\* an edit saved from the post form with the updatedAt field empty is on its
\* way with the current time
C24_Witness ==
    /\ prog = "save"
    /\ writeReqs # <<>>
    /\ writeReqs[1].kind = "update"
    /\ writeReqs[1].form.updatedAt = NoDate
    /\ writeReqs[1].value.updatedAt = Now

\* C25: in every record on its way to the store, in every cache entry and
\* in every entry of the exported JSON, each optional field is a value of
\* its type or is absent; none is null.  handleExport writes the cache
\* entries in the order of getFilteredAndSortedPosts.
C25_NoNullOptionalField ==
    prog \in {"save", "clisave"} =>
       LET exported == getFilteredAndSortedPosts(fetchedPostsCache, "", "", sortOrder)
           values == { writeReqs[i].value : i \in DOMAIN writeReqs }
                     \cup { fetchedPostsCache[i].value : i \in DOMAIN fetchedPostsCache }
                     \cup { exported[i].value : i \in DOMAIN exported }
       IN \A value \in values :
             /\ value.updatedAt # NoDate
             /\ value.bskyCommentsPostUri # Null
             /\ value.coverImage # Null

\* C27: the current time is stored as updatedAt only by an update whose
\* updatedAt input is absent; an input that is there and does not parse is
\* never replaced by it.
C27_OnlyAbsentBecomesNow ==
    prog \in {"save", "clisave"} =>
       \A i \in DOMAIN writeReqs :
          writeReqs[i].value.updatedAt = Now
             => (writeReqs[i].kind = "update" /\ writeReqs[i].form.updatedAt = NoDate)

\* C28: when the store turns a create request down because the record is
\* there already, the caller gets an outcome that no other failure of a
\* create gives.
C28_DuplicateToldApart ==
    [][\A i \in DOMAIN writeReqs :
          (/\ prog \in {"save", "clisave", "botsave"}
           /\ writeReqs[i].kind \in {"create", "bookmark"}
           /\ writeReqs[i].answer \in DuplicateRejections
           /\ writeReqs' = RemoveAt(writeReqs, i))
             => ev'.result \notin { SaveFailureOutcome(prog, a) :
                                      a \in Rejections \ DuplicateRejections }]_vars

\* C30: no create or update request is on its way for a post whose comment
\* reference was entered and could not be made canonical (so the cache is
\* not changed on its account either).
C30_BadCommentSendsNothing ==
    prog \in {"save", "clisave"} =>
       \A i \in DOMAIN writeReqs :
          LET req == writeReqs[i]
              canonical == IF prog = "save"
                           THEN convertBskyUrlToAtUri(req.form.comment, req.resolved).uri
                           ELSE cliConvertBskyUrlToAtUri(req.form.comment, req.resolved)
          IN Trim(req.form.comment) # "" => canonical # Null
\* C31: in the read front end's fetch-all walk a failed page request with
\* status 400 ends fetchAllRecordsForUser with an empty list and no error, and
\* a failed page request with any other status ends it with the error raised.
C31_Only400IsEmpty ==
    (ev.op = "fetchAllRecordsForUser" /\ ev.result = "failed")
        => /\ ev.n = 400 => (wResult = "empty" /\ allFetchedPosts = <<>>)
           /\ ev.n # 400 => wResult = "thrown"

\* C32: a delete of uri U and a load-more whose page holds U overlap; the
\* cache changes in the order the two complete.  When the delete completed
\* first and the page is appended after it, U is in the cache; when the page
\* was appended first and the delete completes after it, U is not.
C32_CompletionOrderDecides ==
    [][\A u \in 1..NumUris :
          LET PageWithArrives ==
                  \E i \in DOMAIN listReqs : \E c \in CursorOpt : \E p \in Pages(PageSize) :
                      u \in Uris(p) /\ FetchSucceeds(i, p, c)
              DeleteCompletes ==
                  \E i \in Answered("delete") :
                      writeReqs[i].uri = u /\ ev'.result = "deleted"
          IN  /\ ( /\ ev.op = "handleDeletePost" /\ ev.result = "deleted" /\ ev.n = u
                   /\ listReqs # <<>>
                   /\ PageWithArrives ) => u \in Uris(fetchedPostsCache')
              /\ ( /\ ev.op = "fetchAndAppendPosts" /\ ev.result = "page"
                   /\ u \in Uris(fetchedPostsCache)
                   /\ DeleteCompletes ) => u \notin Uris(fetchedPostsCache')
      ]_vars

\* a delete has completed and taken its uri out of the cache while a
\* load-more is still awaiting its page
C32_Witness ==
    /\ ev.op = "handleDeletePost" /\ ev.result = "deleted"
    /\ ev.n \notin Uris(fetchedPostsCache)
    /\ fetchedPostsCache # <<>>
    /\ listReqs # <<>> /\ isLoadingMore

\* C33: after handleLogout the cache, the cursor and the category set stay
\* empty as long as nobody logs in, also when a list page that was requested
\* before the logout arrives after it: the step that follows handleLogout
\* and is not a login leaves them empty.
C33_LoggedOutStaysEmpty ==
    [][(ev.op = "handleLogout" /\ session' = NoSession) =>
          /\ fetchedPostsCache' = <<>>
          /\ cursor' = NoCursor
          /\ uniqueCategories' = {}
      ]_vars

\* C34: in the read front end, whenever a list is rendered, the posts and
\* the categories it is rendered from were fetched for the author in view:
\* every record of allFetchedPosts is of currentViewDID's repository and every
\* label of uniqueCategories is the category of a record of that repository.
C34_RenderedListIsOfAuthorInView ==
    (prog = "nav" /\ ev.op = "displayPostList" /\ ev.result = "rendered") =>
        /\ \A k \in DOMAIN allFetchedPosts : RepoOf(allFetchedPosts[k].uri) = currentViewDID
        /\ \A label \in rUniqueCategories :
              \E u \in 1..NumUris :
                 /\ RepoOf(u) = currentViewDID
                 /\ label \in PageCategories(<<Rec(u, StoredValue(u))>>)

\* C35: in the write front end the trimmed category of every cached record
\* whose category is not empty and not "Recommended" is one of the labels
\* getUniqueCategories returns, after page appends and successful creates,
\* updates and deletes.
C35_CachedCategoriesListed ==
    prog = "write" =>
        \A k \in DOMAIN fetchedPostsCache :
            LET category == Trim(fetchedPostsCache[k].value.category)
            IN  category \notin {"", "Recommended"} => category \in getUniqueCategories

\* C36: in the write front end the category filter in effect is empty or
\* one of the labels getUniqueCategories returns, also after a delete that
\* removes the last recommended record.
C36_FilterIsListed ==
    prog = "filter" => (filterCategory = "" \/ filterCategory \in getUniqueCategories)

\* C37: attemptResumeSession calls api.resumeSession only for stored data
\* that has an initialLoginAt not older than SESSION_MAX_AGE; stored data
\* without one or older than that is cleared and no call is made; and a
\* successful resume stores the initialLoginAt it found, unchanged.
C37_ResumeWithinMaxAge ==
    [][(ev'.op = "attemptResumeSession" /\ clock' = clock) =>
          LET stored == localStorage.session # "null"
              fresh == /\ localStorage.initialLoginAt # 0
                       /\ clock - localStorage.initialLoginAt <= SESSION_MAX_AGE
          IN  /\ ev'.result = "sent" => (stored /\ fresh /\ resuming' = localStorage)
              /\ (resuming.session = "null" /\ stored /\ ~fresh) =>
                    /\ localStorage'.session = "null"
                    /\ resuming'.session = "null"
                    /\ session' = NoSession
              /\ ev'.result = "resumed" =>
                    /\ localStorage'.session = resuming.session
                    /\ localStorage'.initialLoginAt = resuming.initialLoginAt
                    /\ localStorage'.initialLoginAt # 0
      ]_vars

\* a session has been resumed when its initial login was the maximum age
\* ago or, the answer having taken its time, longer
C37_Witness ==
    /\ ev.op = "attemptResumeSession" /\ ev.result = "resumed"
    /\ localStorage.session # "null"
    /\ clock - localStorage.initialLoginAt >= SESSION_MAX_AGE

\* C38: a webhook update from a chat other than AUTHORIZED_CHAT_ID causes no
\* Bluesky call and no get, put or delete on TELEGRAM_STATE_KV, and changes
\* neither the pending uri nor the bookmark collection; its one effect is
\* the warning sent to that chat.
C38_UnauthorizedDoesNothing ==
    [][(ev'.op = "fetch" /\ ev'.n # AUTHORIZED_CHAT_ID) =>
          /\ calls' = {}
          /\ pendingUri' = pendingUri
          /\ bookmarks' = bookmarks
          /\ ev'.result = "unauthorized"
          /\ ev'.shown = "warning"
      ]_vars

\* an update of another chat has been answered while a uri of the
\* authorized chat was waiting for its category
C38_Witness ==
    /\ ev.op = "fetch" /\ ev.result = "unauthorized"
    /\ ev.n # AUTHORIZED_CHAT_ID
    /\ pendingUri # 0

\* C39: the bookmark collection holds at most one bookmark of each post uri,
\* after any sequence of link and category messages, a failed listing
\* during the duplicate check included.
C39_OneBookmarkPerUri ==
    prog = "webhook" => \A u \in DOMAIN bookmarks : bookmarks[u] <= 1

\* C40: in the CLI's managePosts, pageNumber is the length of the cursor
\* history plus one; 'previous' is chosen only when pageNumber > 1 and then
\* finds a cursor to go back to; 'next' leaves the cursor of the page shown
\* on top of the history, no selection other than 'next' and 'previous'
\* and no arriving page changes history, cursor or page number, and
\* 'previous' asks for the page with the cursor on top of the history: the
\* cursor that was used before the 'next'.
C40_PreviousUndoesNext ==
    /\ [](prog = "manage" => pageNumber = Len(history) + 1)
    /\ [][prog = "manage" =>
            /\ (ev'.op = "managePosts" /\ ev'.shown = "next") =>
                  /\ history' # <<>>
                  /\ history'[Len(history')] = currentCursor
                  /\ SubSeq(history', 1, Len(history') - 1) = history
            /\ (ev'.op = "managePosts" /\ ev'.shown \in {"prev", "alreadyFirst"}) =>
                  /\ pageNumber > 1
                  /\ ev'.shown = "prev"
                  /\ currentCursor' = history[Len(history)]
                  /\ pageNumber' = pageNumber - 1
            /\ ~(ev'.op = "managePosts" /\ ev'.shown \in {"next", "prev", "alreadyFirst"})
               /\ ~(ev'.op = "fetchRecordPage" /\ ev'.result = "sent") =>
                  UNCHANGED <<history, currentCursor, pageNumber>>
        ]_vars

\* 'previous' has been chosen on page 3 and page 2 is asked for again with
\* its cursor
C40_Witness ==
    /\ ev.op = "managePosts" /\ ev.shown = "prev"
    /\ pageNumber = 2
    /\ currentCursor # NoCursor
    /\ wPc = "awaiting"

====
